---- MODULE Spec2Model ----
(***************************************************************************)
(* Model of the kvozy binding engine (src/src/bindValue.ts): a BindValue   *)
(* owns one cached value for one key of a Storage backend, loads it on     *)
(* construction (version envelope, migration, fallbacks), writes through   *)
(* on set / setRaw and notifies its subscribers synchronously.             *)
(*                                                                         *)
(* Strings are sequences of characters 0..MaxChar, character 0 being the   *)
(* NUL byte "\x00" of the version envelope. Values of the generic type T   *)
(* are the naturals 0..MaxChar-1. The user-supplied functions (serialize,  *)
(* deserialize, migrate, the subscriber callbacks) are drawn from small    *)
(* families taken from the codecs of src/src/bindTypes.ts and from the     *)
(* test suites.                                                            *)
(***************************************************************************)
EXTENDS Naturals, Sequences, FiniteSets

VARIABLES storage, live, options, value, subscribers, calledUnsubs, last,
          quotaExceeded, namespaces, hooks, updates

vars ==
  <<storage, live, options, value, subscribers, calledUnsubs, last,
    quotaExceeded, namespaces, hooks, updates>>

(***************************************************************************)
(* Bounds                                                                  *)
(***************************************************************************)
MaxChar == 2
MaxRawLen == 3
MaxSubscribers == 2
MaxTextLen == 2
MaxPayloadLen == 1
MaxUpdates == 3

(***************************************************************************)
(* Strings                                                                 *)
(***************************************************************************)
NUL == 0
Chars == 0..MaxChar
Values == 0..(MaxChar - 1)

RECURSIVE StringsOfLen(_)
StringsOfLen(n) ==
  IF n = 0 THEN {<<>>}
  ELSE {Append(s, c) : s \in StringsOfLen(n - 1), c \in Chars}

RawStrings == UNION {StringsOfLen(n) : n \in 0..MaxRawLen}

\* the values of a binding of strings (T = string)
Texts == UNION {StringsOfLen(n) : n \in 0..MaxTextLen}

startsWith(s, c) == Len(s) > 0 /\ s[1] = c

\* index of the first NUL of s, 0 when s holds none
RECURSIVE indexOfNul(_, _)
indexOfNul(s, i) ==
  IF i > Len(s) THEN 0
  ELSE IF s[i] = NUL THEN i
  ELSE indexOfNul(s, i + 1)

\* String.prototype.split("\x00"): the pieces between the NULs
RECURSIVE split(_)
split(s) ==
  LET i == indexOfNul(s, 1) IN
  IF i = 0 THEN <<s>>
  ELSE <<SubSeq(s, 1, i - 1)>> \o split(SubSeq(s, i + 1, Len(s)))

\* Array.prototype.join("\x00")
RECURSIVE join(_)
join(parts) ==
  IF Len(parts) = 0 THEN <<>>
  ELSE IF Len(parts) = 1 THEN parts[1]
  ELSE parts[1] \o <<NUL>> \o join(Tail(parts))

\* Array.prototype.slice(2)
slice2(parts) == SubSeq(parts, 3, Len(parts))

(***************************************************************************)
(* Names: the prefixes and keys given to a namespace, as sequences of      *)
(* character codes. They are empty, blank, padded with blanks, plain, or   *)
(* hold the separator of the namespace.                                    *)
(***************************************************************************)
US == 31
SP == 32
Whitespace == {SP, 9}

Names ==
  {<<>>, <<SP>>, <<9>>, <<SP, SP>>, <<97>>, <<98>>, <<SP, 97>>, <<97, SP>>,
   <<US>>, <<97, US>>, <<US, 97>>}

\* String.prototype.trim
RECURSIVE trim(_)
trim(s) ==
  IF Len(s) = 0 THEN s
  ELSE IF s[1] \in Whitespace THEN trim(Tail(s))
  ELSE IF s[Len(s)] \in Whitespace THEN trim(SubSeq(s, 1, Len(s) - 1))
  ELSE s

\* a test that takes the separator for a blank
emptyOrSeparators(s) == \A i \in 1..Len(s) : s[i] \in Whitespace \cup {US}

\* !s || s.trim() === ""
empty(s) == Len(s) = 0 \/ trim(s) = <<>>

\* a key that is trimmed before it is joined to the prefix
boundKeyTrimmed(prefix, key) == prefix \o <<US>> \o trim(key)

\* `${this.options.prefix}\x1F${key}`
boundKey(prefix, key) == prefix \o <<US>> \o key

\* the store keys of the bindings of namespaces
NSKeys == {boundKey(p, k) : p \in Names, k \in Names}

(***************************************************************************)
(* Storage backend                                                         *)
(***************************************************************************)
Keys == {"k1"}

Null == [present |-> FALSE, s |-> <<>>]
Item(s) == [present |-> TRUE, s |-> s]

getItem(st, key) == st[key]
setItem(st, key, s) == [st EXCEPT ![key] = Item(s)]
\* a removal that empties the whole backend
removeItemClearing(st, key) == [k \in DOMAIN st |-> Null]

removeItem(st, key) == [st EXCEPT ![key] = Null]

\* a backend whose quota is exceeded throws from setItem; getItem and
\* removeItem go on working
setItemThrows == quotaExceeded

(***************************************************************************)
(* Options of a binding                                                    *)
(***************************************************************************)
\* version?: string   (undefined, or a string that may be empty)
NoVersion == [def |-> FALSE, s |-> <<>>]
Version(s) == [def |-> TRUE, s |-> s]
\* truthiness of `version` in `if (version)`
Truthy(version) == version.def /\ version.s # <<>>

Thrown == [ok |-> FALSE, v |-> 0]
Returned(v) == [ok |-> TRUE, v |-> v]
ThrownStr == [ok |-> FALSE, s |-> <<>>]
ReturnedStr(s) == [ok |-> TRUE, s |-> s]

\* codecs of the values 0..MaxChar-1, and the codec of the strings
Codecs == {"json", "boolean", "failing"}
TextCodecs == {"string"}

\* a value the failing serializer of the tests refuses
NonSerializable(v) == v = MaxChar - 1

\* String(v) / JSON.stringify(v): the one-character text of v
stringify(v) == <<v + 1>>

\* JSON.parse(s): throws on anything that is not the text of a value
parse(s) ==
  IF Len(s) = 1 /\ s[1] # NUL THEN Returned(s[1] - 1) ELSE Thrown

\* "string" is the identity codec (v) => v of bindString
serialize(codec, v) ==
  IF codec \in TextCodecs THEN ReturnedStr(v)
  ELSE IF codec = "failing" /\ NonSerializable(v) THEN ThrownStr
  ELSE ReturnedStr(stringify(v))

deserialize(codec, s) ==
  IF codec \in TextCodecs THEN Returned(s)
  ELSE IF codec = "boolean" THEN Returned(IF s = stringify(1) THEN 1 ELSE 0)
  ELSE parse(s)

\* migrate?: (oldSerialized, oldVersion) => T, absent ("none") or a function
\* that parses the old payload and throws when it cannot
Migrates == {"none", "parse"}

migrate(kind, oldSerialized, oldVersion) == parse(oldSerialized)

(***************************************************************************)
(* One public call. A run record carries what the call has done so far:    *)
(* the cached value and the storage as the call leaves them, the callback  *)
(* invocations in order, whether an exception reached the caller, and how  *)
(* often each user-supplied function was invoked (migrate with the         *)
(* arguments it was given), and what the call returns when it returns a    *)
(* raw string or null.                                                     *)
(***************************************************************************)
Run(st, v) ==
  [value |-> v, storage |-> st, calls |-> <<>>, threw |-> FALSE,
   nested |-> FALSE, accepted |-> FALSE, loadState |-> "-",
   nSer |-> 0, nDeser |-> 0, nMig |-> 0, migArgs |-> <<>>, ret |-> Null]

\* `\x00${version}\x00${serialized}` when version is truthy, else serialized
envelope(version, serialized) ==
  IF Truthy(version) THEN <<NUL>> \o version.s \o <<NUL>> \o serialized
  ELSE serialized

\* saveToStorage that drops the entry when serialize throws
saveToStoragePurging(opts, m, v) ==
  LET r == serialize(opts.codec, v)
      m1 == [m EXCEPT !.nSer = @ + 1] IN
  IF r.ok
  THEN [m1 EXCEPT !.storage = setItem(@, opts.key, envelope(opts.version, r.s))]
  ELSE [m1 EXCEPT !.storage = removeItem(@, opts.key)]

\* a saveToStorage that guards serialize only: the exception of setItem
\* reaches the caller
saveToStorageUnguarded(opts, m, v) ==
  LET r == serialize(opts.codec, v)
      m1 == [m EXCEPT !.nSer = @ + 1] IN
  IF ~r.ok THEN m1
  ELSE IF setItemThrows THEN [m1 EXCEPT !.threw = TRUE]
  ELSE [m1 EXCEPT !.storage = setItem(@, opts.key, envelope(opts.version, r.s))]

\* saveToStorage: serialize and write inside one try; the exception of
\* serialize and the one of setItem are both swallowed
saveToStorage(opts, m, v) ==
  LET r == serialize(opts.codec, v)
      m1 == [m EXCEPT !.nSer = @ + 1] IN
  IF r.ok /\ ~setItemThrows
  THEN [m1 EXCEPT !.storage = setItem(@, opts.key, envelope(opts.version, r.s))]
  ELSE m1

\* a reading that takes two NUL-delimited parts for a version without payload
parseRawLoose(rawValue) ==
  IF startsWith(rawValue, NUL)
  THEN LET parts == split(rawValue) IN
       IF Len(parts) >= 2
       THEN [oldVersion |-> Version(parts[2]),
             serializedValue |-> join(slice2(parts))]
       ELSE [oldVersion |-> NoVersion, serializedValue |-> rawValue]
  ELSE [oldVersion |-> NoVersion, serializedValue |-> rawValue]

\* the version envelope of a stored raw string, as loadFromStorage reads it
parseRaw(rawValue) ==
  IF startsWith(rawValue, NUL)
  THEN LET parts == split(rawValue) IN
       IF Len(parts) >= 3
       THEN [oldVersion |-> Version(parts[2]),
             serializedValue |-> join(slice2(parts))]
       ELSE [oldVersion |-> NoVersion, serializedValue |-> rawValue]
  ELSE [oldVersion |-> NoVersion, serializedValue |-> rawValue]

\* a comparison that takes two absent versions for a mismatch
versionMismatchOrAbsent(oldVersion, currentVersion) ==
  ~oldVersion.def \/ oldVersion # currentVersion

\* oldVersion !== currentVersion
versionMismatch(oldVersion, currentVersion) == oldVersion # currentVersion

\* a load that writes the default back when the key is absent
loadAbsentPersisting(opts, m) ==
  [m EXCEPT !.value = opts.defaultValue, !.loadState = "NoStoredValue",
            !.storage = setItem(@, opts.key,
                          envelope(opts.version, stringify(opts.defaultValue)))]

\* loadFromStorage, when the key is absent
loadAbsent(opts, m) ==
  [m EXCEPT !.value = opts.defaultValue, !.loadState = "NoStoredValue"]

\* a load that purges the entry when deserialize throws
loadMatchPurging(opts, m, serializedValue) ==
  LET d == deserialize(opts.codec, serializedValue)
      m1 == [m EXCEPT !.nDeser = @ + 1] IN
  IF d.ok
  THEN [m1 EXCEPT !.value = d.v, !.loadState = "VersionMatch"]
  ELSE [m1 EXCEPT !.value = opts.defaultValue,
                  !.storage = removeItem(@, opts.key),
                  !.loadState = "DeserializeFailed"]

\* a load that passes the payload through migrate whenever there is one
loadMatchMigrating(opts, m, serializedValue) ==
  IF opts.migrate # "none"
  THEN LET g == migrate(opts.migrate, serializedValue, opts.version)
           m1 == [m EXCEPT !.nMig = @ + 1,
                           !.migArgs = Append(@, <<serializedValue, opts.version>>)] IN
       [m1 EXCEPT !.value = IF g.ok THEN g.v ELSE opts.defaultValue,
                  !.loadState = "VersionMatch"]
  ELSE LET d == deserialize(opts.codec, serializedValue)
           m1 == [m EXCEPT !.nDeser = @ + 1] IN
       IF d.ok
       THEN [m1 EXCEPT !.value = d.v, !.loadState = "VersionMatch"]
       ELSE [m1 EXCEPT !.value = opts.defaultValue,
                       !.loadState = "DeserializeFailed"]

\* loadFromStorage, versions equal: deserialize, default when it throws
loadMatch(opts, m, serializedValue) ==
  LET d == deserialize(opts.codec, serializedValue)
      m1 == [m EXCEPT !.nDeser = @ + 1] IN
  IF d.ok
  THEN [m1 EXCEPT !.value = d.v, !.loadState = "VersionMatch"]
  ELSE [m1 EXCEPT !.value = opts.defaultValue,
                  !.loadState = "DeserializeFailed"]

\* a load that leaves the stale entry in place when there is no migrate
loadMismatchKeeping(opts, m, serializedValue, oldVersion) ==
  IF opts.migrate # "none"
  THEN LET g == migrate(opts.migrate, serializedValue, oldVersion)
           m1 == [m EXCEPT !.nMig = @ + 1,
                           !.migArgs = Append(@, <<serializedValue, oldVersion>>)] IN
       IF g.ok
       THEN [saveToStorage(opts, m1, g.v) EXCEPT
               !.value = g.v, !.loadState = "VersionMismatchWithMigrate"]
       ELSE [m1 EXCEPT !.storage = removeItem(@, opts.key),
                       !.value = opts.defaultValue,
                       !.loadState = "MigrateFailed"]
  ELSE [m EXCEPT !.value = opts.defaultValue,
                 !.loadState = "VersionMismatchNoMigrate"]

\* a load that leaves the stale entry in place when migrate throws
loadMismatchUnpurged(opts, m, serializedValue, oldVersion) ==
  IF opts.migrate # "none"
  THEN LET g == migrate(opts.migrate, serializedValue, oldVersion)
           m1 == [m EXCEPT !.nMig = @ + 1,
                           !.migArgs = Append(@, <<serializedValue, oldVersion>>)] IN
       IF g.ok
       THEN [saveToStorage(opts, m1, g.v) EXCEPT
               !.value = g.v, !.loadState = "VersionMismatchWithMigrate"]
       ELSE [m1 EXCEPT !.value = opts.defaultValue,
                       !.loadState = "MigrateFailed"]
  ELSE [m EXCEPT !.storage = removeItem(@, opts.key),
                 !.value = opts.defaultValue,
                 !.loadState = "VersionMismatchNoMigrate"]

\* a load that takes a migrated value it cannot serialize for a failed
\* migration
loadMismatchStrict(opts, m, serializedValue, oldVersion) ==
  IF opts.migrate # "none"
  THEN LET g == migrate(opts.migrate, serializedValue, oldVersion)
           m1 == [m EXCEPT !.nMig = @ + 1,
                           !.migArgs = Append(@, <<serializedValue, oldVersion>>)] IN
       IF g.ok /\ serialize(opts.codec, g.v).ok
       THEN [saveToStorage(opts, m1, g.v) EXCEPT
               !.value = g.v, !.loadState = "VersionMismatchWithMigrate"]
       ELSE [m1 EXCEPT !.storage = removeItem(@, opts.key),
                       !.value = opts.defaultValue,
                       !.loadState = "MigrateFailed"]
  ELSE [m EXCEPT !.storage = removeItem(@, opts.key),
                 !.value = opts.defaultValue,
                 !.loadState = "VersionMismatchNoMigrate"]

\* loadFromStorage, versions differ: migrate and save, or purge
loadMismatch(opts, m, serializedValue, oldVersion) ==
  IF opts.migrate # "none"
  THEN LET g == migrate(opts.migrate, serializedValue, oldVersion)
           m1 == [m EXCEPT !.nMig = @ + 1,
                           !.migArgs = Append(@, <<serializedValue, oldVersion>>)] IN
       IF g.ok
       THEN [saveToStorage(opts, m1, g.v) EXCEPT
               !.value = g.v, !.loadState = "VersionMismatchWithMigrate"]
       ELSE [m1 EXCEPT !.storage = removeItem(@, opts.key),
                       !.value = opts.defaultValue,
                       !.loadState = "MigrateFailed"]
  ELSE [m EXCEPT !.storage = removeItem(@, opts.key),
                 !.value = opts.defaultValue,
                 !.loadState = "VersionMismatchNoMigrate"]

\* a load that takes the entry out of the store once it has read it
loadFromStorageConsuming(opts, m) ==
  LET rawValue == getItem(m.storage, opts.key) IN
  IF ~rawValue.present THEN loadAbsent(opts, m)
  ELSE LET p == parseRaw(rawValue.s) IN
       IF versionMismatch(p.oldVersion, opts.version)
       THEN loadMismatch(opts, m, p.serializedValue, p.oldVersion)
       ELSE [loadMatch(opts, m, p.serializedValue) EXCEPT
               !.storage = removeItem(@, opts.key)]

\* loadFromStorage: read the entry, split off its version, then migrate,
\* purge or deserialize
loadFromStorage(opts, m) ==
  LET rawValue == getItem(m.storage, opts.key) IN
  IF ~rawValue.present THEN loadAbsent(opts, m)
  ELSE LET p == parseRaw(rawValue.s) IN
       IF versionMismatch(p.oldVersion, opts.version)
       THEN loadMismatch(opts, m, p.serializedValue, p.oldVersion)
       ELSE loadMatch(opts, m, p.serializedValue)

(***************************************************************************)
(* Subscribers. The subscriber Set iterates in insertion order, so it is a *)
(* sequence without repetitions. Four callbacks stand for the functions a  *)
(* caller may register: "recorder" and "observer" only record what they    *)
(* are given (vi.fn(), React's setValue), "resetter" records and calls     *)
(* binding.set(default) from inside the callback when given another value, *)
(* "thrower" records and throws. Each invocation is logged with the        *)
(* argument it received and with what binding.getValue() returns inside    *)
(* the callback.                                                           *)
(***************************************************************************)
Callbacks == {"recorder", "observer", "resetter", "thrower"}

Range(seq) == {seq[i] : i \in 1..Len(seq)}

\* a collection that registers a callback once per call
addAgain(subs, cb) == Append(subs, cb)

\* Set.prototype.add
add(subs, cb) == IF cb \in Range(subs) THEN subs ELSE Append(subs, cb)

\* Set.prototype.delete
delete(subs, cb) == SelectSeq(subs, LAMBDA x : x # cb)

\* the argument of subscriber(this.value)
delivered(m) == m.value

RECURSIVE set(_, _, _, _)
RECURSIVE notifySubscribers(_, _, _, _)

\* an invocation inside try/catch: what the callback throws is dropped
invokeGuarded(opts, subs, m, cb) ==
  LET arg == delivered(m)
      m1 == [m EXCEPT !.calls =
               Append(@, [cb |-> cb, arg |-> arg, seen |-> m.value])] IN
  IF cb = "resetter" /\ arg # opts.defaultValue
  THEN set(opts, subs, [m1 EXCEPT !.nested = TRUE], opts.defaultValue)
  ELSE m1

\* one invocation subscriber(this.value)
invoke(opts, subs, m, cb) ==
  LET arg == delivered(m)
      m1 == [m EXCEPT !.calls =
               Append(@, [cb |-> cb, arg |-> arg, seen |-> m.value])] IN
  IF cb = "thrower" THEN [m1 EXCEPT !.threw = TRUE]
  ELSE IF cb = "resetter" /\ arg # opts.defaultValue
  THEN set(opts, subs, [m1 EXCEPT !.nested = TRUE], opts.defaultValue)
  ELSE m1

\* a notification that ends once a subscriber has written to the binding
notifySubscribersOnce(opts, subs, m, i) ==
  IF i > Len(subs) THEN m
  ELSE LET m1 == invoke(opts, subs, m, subs[i]) IN
       IF m1.threw \/ (m1.nested /\ ~m.nested) THEN m1
       ELSE notifySubscribers(opts, subs, m1, i + 1)

\* for (const subscriber of this.subscribers) subscriber(this.value), from
\* the i-th subscriber on; an exception ends the loop and the call
notifySubscribers(opts, subs, m, i) ==
  IF i > Len(subs) THEN m
  ELSE LET m1 == invoke(opts, subs, m, subs[i]) IN
       IF m1.threw THEN m1 ELSE notifySubscribers(opts, subs, m1, i + 1)

\* a set that caches the value only once it has been serialized
assignIfSaved(opts, m, newValue) ==
  IF serialize(opts.codec, newValue).ok
  THEN saveToStorage(opts, [m EXCEPT !.value = newValue], newValue)
  ELSE saveToStorage(opts, m, newValue)

\* this.value = newValue; this.saveToStorage(newValue)
assignAndSave(opts, m, newValue) ==
  saveToStorage(opts, [m EXCEPT !.value = newValue], newValue)

\* a set that leaves the notification for later
setWithoutNotify(opts, subs, m, newValue) ==
  assignAndSave(opts, m, newValue)

\* a set that does nothing when the value is the one cached
setIfChanged(opts, subs, m, newValue) ==
  IF newValue = m.value THEN m
  ELSE notifySubscribers(opts, subs, assignAndSave(opts, m, newValue), 1)

\* a set that gives up the notification when nothing was persisted
setNotifyIfSaved(opts, subs, m, newValue) ==
  IF serialize(opts.codec, newValue).ok
  THEN notifySubscribers(opts, subs, assignAndSave(opts, m, newValue), 1)
  ELSE assignAndSave(opts, m, newValue)

set(opts, subs, m, newValue) ==
  notifySubscribers(opts, subs, assignAndSave(opts, m, newValue), 1)

\* the raw string this binding would write for serializedValue
reconstructedRaw(version, serializedValue) ==
  IF Truthy(version) THEN <<NUL>> \o version.s \o <<NUL>> \o serializedValue
  ELSE serializedValue

\* setRaw, version check: the payload, or a rejection
serializedPart(version, rawValue) ==
  IF Truthy(version)
  THEN IF ~startsWith(rawValue, NUL) THEN ThrownStr
       ELSE LET parts == split(rawValue) IN
            IF Len(parts) < 3 THEN ThrownStr
            ELSE IF parts[2] # version.s THEN ThrownStr
            ELSE ReturnedStr(join(slice2(parts)))
  ELSE ReturnedStr(rawValue)

\* a setRaw that accepts without notifying
setRawSilent(opts, subs, m, rawValue) ==
  LET part == serializedPart(opts.version, rawValue) IN
  IF ~part.ok THEN m
  ELSE LET d == deserialize(opts.codec, part.s)
           m1 == [m EXCEPT !.nDeser = @ + 1] IN
       IF ~d.ok THEN m1
       ELSE LET r == serialize(opts.codec, d.v)
                m2 == [m1 EXCEPT !.nSer = @ + 1] IN
            IF ~r.ok THEN [m2 EXCEPT !.threw = TRUE]
            ELSE IF reconstructedRaw(opts.version, r.s) # rawValue THEN m2
            ELSE [m2 EXCEPT !.storage = setItem(@, opts.key, rawValue),
                            !.value = d.v, !.accepted = TRUE]

\* a setRaw that falls back to the default, as the load does, when
\* deserialize throws
setRawDefaulting(opts, subs, m, rawValue) ==
  LET part == serializedPart(opts.version, rawValue) IN
  IF ~part.ok THEN m
  ELSE LET d == deserialize(opts.codec, part.s)
           m1 == [m EXCEPT !.nDeser = @ + 1] IN
       IF ~d.ok THEN [m1 EXCEPT !.value = opts.defaultValue]
       ELSE LET r == serialize(opts.codec, d.v)
                m2 == [m1 EXCEPT !.nSer = @ + 1] IN
            IF ~r.ok THEN [m2 EXCEPT !.threw = TRUE]
            ELSE IF reconstructedRaw(opts.version, r.s) # rawValue THEN m2
            ELSE notifySubscribers(opts, subs,
                   [m2 EXCEPT !.storage = setItem(@, opts.key, rawValue),
                              !.value = d.v, !.accepted = TRUE], 1)

\* a setRaw without the round-trip comparison
setRawUnchecked(opts, subs, m, rawValue) ==
  LET part == serializedPart(opts.version, rawValue) IN
  IF ~part.ok THEN m
  ELSE LET d == deserialize(opts.codec, part.s)
           m1 == [m EXCEPT !.nDeser = @ + 1] IN
       IF ~d.ok THEN m1
       ELSE LET r == serialize(opts.codec, d.v)
                m2 == [m1 EXCEPT !.nSer = @ + 1] IN
            IF ~r.ok THEN [m2 EXCEPT !.threw = TRUE]
            ELSE notifySubscribers(opts, subs,
                   [m2 EXCEPT !.storage = setItem(@, opts.key, rawValue),
                              !.value = d.v, !.accepted = TRUE], 1)

\* a setRaw that updates the cache before it writes, as set does
setRawCachingFirst(opts, subs, m, rawValue) ==
  LET part == serializedPart(opts.version, rawValue) IN
  IF ~part.ok THEN m
  ELSE LET d == deserialize(opts.codec, part.s)
           m1 == [m EXCEPT !.nDeser = @ + 1] IN
       IF ~d.ok THEN m1
       ELSE LET r == serialize(opts.codec, d.v)
                m2 == [m1 EXCEPT !.nSer = @ + 1] IN
            IF ~r.ok THEN [m2 EXCEPT !.threw = TRUE]
            ELSE IF reconstructedRaw(opts.version, r.s) # rawValue THEN m2
            ELSE IF setItemThrows THEN [m2 EXCEPT !.threw = TRUE, !.value = d.v]
            ELSE notifySubscribers(opts, subs,
                   [m2 EXCEPT !.storage = setItem(@, opts.key, rawValue),
                              !.value = d.v, !.accepted = TRUE], 1)

\* setRaw: version check, deserialize, round-trip check, then store, cache
\* and notify; an exception of serialize, or of setItem, reaches the caller
setRaw(opts, subs, m, rawValue) ==
  LET part == serializedPart(opts.version, rawValue) IN
  IF ~part.ok THEN m
  ELSE LET d == deserialize(opts.codec, part.s)
           m1 == [m EXCEPT !.nDeser = @ + 1] IN
       IF ~d.ok THEN m1
       ELSE LET r == serialize(opts.codec, d.v)
                m2 == [m1 EXCEPT !.nSer = @ + 1] IN
            IF ~r.ok THEN [m2 EXCEPT !.threw = TRUE]
            ELSE IF reconstructedRaw(opts.version, r.s) # rawValue THEN m2
            ELSE IF setItemThrows THEN [m2 EXCEPT !.threw = TRUE]
            ELSE notifySubscribers(opts, subs,
                   [m2 EXCEPT !.storage = setItem(@, opts.key, rawValue),
                              !.value = d.v, !.accepted = TRUE], 1)

(***************************************************************************)
(* State.                                                                  *)
(*   storage      the Storage backend shared by the bindings               *)
(*   live         whether binding b has been constructed                   *)
(*   options, value, subscribers   the fields of binding b                 *)
(*   calledUnsubs the callback of b (if any) whose unsubscribe closure the *)
(*                caller has called last and still holds                   *)
(*   last         the last public call: its operation, its arguments and   *)
(*                what its run did                                         *)
(*   quotaExceeded  whether the backend refuses writes: setItem throws     *)
(*   namespaces   the BindValueNS objects: whether built, and their prefix *)
(*   hooks        the useStorage hooks: how far the component that calls   *)
(*                the hook has got, and the value of its useState          *)
(*   updates      what the callback "logger" has been given so far         *)
(* Binding objects are "A" and "B"; the specifications of one binding use  *)
(* "A" only, and the key "k1" only.                                        *)
(***************************************************************************)
Bindings == {"A"}
AllBindings == {"A", "B"}
AllKeys == {"k1", "k2"}

Namespaces == {"N1", "N2"}

\* the options of a namespace: those of a binding, with prefix for key
NSOptions ==
  [prefix : Names, defaultValue : {0}, codec : {"json"},
   version : {NoVersion, Version(<<1>>)}, migrate : {"none"}]

NoNamespace ==
  [live |-> FALSE,
   options |-> [prefix |-> <<>>, defaultValue |-> 0, codec |-> "json",
                version |-> NoVersion, migrate |-> "none"]]

\* the hook "H" is called with binding "A": useStorage(binding)
Hooks == {"H"}
HookBinding(h) == "A"
NoHook == [phase |-> "unmounted", value |-> 0]

\* const [value, setValue] = useState(...): the state of the hooks of
\* binding b after the calls of setValue among `calls`
afterCalls(hs, b, calls) ==
  [h \in DOMAIN hs |->
     LET mine == SelectSeq(calls, LAMBDA c : c.cb = "setValue") IN
     IF HookBinding(h) = b /\ Len(mine) > 0
     THEN [hs[h] EXCEPT !.value = mine[Len(mine)].arg]
     ELSE hs[h]]

\* (value) => updates.push(value): the log of the callback "logger" after
\* the invocations `calls`
logged(log, calls) ==
  log \o [i \in 1..Len(SelectSeq(calls, LAMBDA c : c.cb = "logger")) |->
           SelectSeq(calls, LAMBDA c : c.cb = "logger")[i].arg]

VersionStrings == {<<>>, <<1>>}
Versions == {NoVersion} \cup {Version(s) : s \in VersionStrings}

\* the default values bindings are built with
Defaults == {0, MaxChar - 1}

Options ==
  [key : Keys, defaultValue : Defaults, codec : Codecs,
   version : Versions, migrate : Migrates]

NoOptions ==
  [key |-> "k1", defaultValue |-> 0, codec |-> "json",
   version |-> NoVersion, migrate |-> "none"]

Last(op, b, cb, val, raw, m) ==
  [op |-> op, b |-> b, cb |-> cb, val |-> val, raw |-> raw,
   calls |-> m.calls, threw |-> m.threw, nested |-> m.nested,
   accepted |-> m.accepted, loadState |-> m.loadState,
   nSer |-> m.nSer, nDeser |-> m.nDeser, nMig |-> m.nMig,
   migArgs |-> m.migArgs, ret |-> m.ret]

Init ==
  /\ quotaExceeded = FALSE
  /\ namespaces = [n \in Namespaces |-> NoNamespace]
  /\ hooks = [h \in Hooks |-> NoHook]
  /\ updates = <<>>
  /\ storage = [k \in AllKeys |-> Null]
  /\ live = [b \in AllBindings |-> FALSE]
  /\ options = [b \in AllBindings |-> NoOptions]
  /\ value = [b \in AllBindings |-> 0]
  /\ subscribers = [b \in AllBindings |-> <<>>]
  /\ calledUnsubs = [b \in AllBindings |-> {}]
  /\ last = Last("init", "A", "-", 0, <<>>, Run(storage, 0))

\* new BindValue(opts): the constructor never throws; the new object has
\* no subscriber, and the closures of the object it replaces are dropped
\* (last.raw keeps the raw string the constructor read, if any)
Construct(b, opts) ==
  LET m == loadFromStorage(opts, Run(storage, opts.defaultValue)) IN
  /\ live' = [live EXCEPT ![b] = TRUE]
  /\ options' = [options EXCEPT ![b] = opts]
  /\ value' = [value EXCEPT ![b] = m.value]
  /\ storage' = m.storage
  /\ subscribers' = [subscribers EXCEPT ![b] = <<>>]
  /\ calledUnsubs' = [calledUnsubs EXCEPT ![b] = {}]
  /\ last' = Last("construct", b, "-", 0, getItem(storage, opts.key).s, m)
  /\ UNCHANGED <<quotaExceeded, namespaces, hooks, updates>>

\* a set that writes through to every binding object on the same key
SetShared(b, newValue) ==
  LET m == set(options[b], subscribers[b], Run(storage, value[b]), newValue) IN
  /\ live[b]
  /\ value' = [c \in DOMAIN value |->
                 IF options[c].key = options[b].key THEN m.value ELSE value[c]]
  /\ storage' = m.storage
  /\ last' = Last("set", b, "-", newValue, <<>>, m)
  /\ UNCHANGED <<live, options, subscribers, calledUnsubs>>
  /\ hooks' = afterCalls(hooks, b, m.calls)
  /\ updates' = logged(updates, m.calls)
  /\ UNCHANGED <<quotaExceeded, namespaces>>

\* binding.set(newValue)
Set(b, newValue) ==
  LET m == set(options[b], subscribers[b], Run(storage, value[b]), newValue) IN
  /\ live[b]
  /\ value' = [value EXCEPT ![b] = m.value]
  /\ storage' = m.storage
  /\ last' = Last("set", b, "-", newValue, <<>>, m)
  /\ UNCHANGED <<live, options, subscribers, calledUnsubs>>
  /\ hooks' = afterCalls(hooks, b, m.calls)
  /\ updates' = logged(updates, m.calls)
  /\ UNCHANGED <<quotaExceeded, namespaces>>

\* a reset that leaves the entry in the store
resetKeeping(opts, subs, m) ==
  notifySubscribers(opts, subs, [m EXCEPT !.value = opts.defaultValue], 1)

\* binding.reset(), as the tests of reset() describe it: the key is removed,
\* the value is the default, the subscribers are notified
reset(opts, subs, m) ==
  notifySubscribers(opts, subs,
    [m EXCEPT !.storage = removeItem(@, opts.key),
              !.value = opts.defaultValue], 1)

\* binding.reset()
Reset(b) ==
  LET m == reset(options[b], subscribers[b], Run(storage, value[b])) IN
  /\ live[b]
  /\ value' = [value EXCEPT ![b] = m.value]
  /\ storage' = m.storage
  /\ last' = Last("reset", b, "-", 0, <<>>, m)
  /\ UNCHANGED <<live, options, subscribers, calledUnsubs>>
  /\ hooks' = afterCalls(hooks, b, m.calls)
  /\ updates' = logged(updates, m.calls)
  /\ UNCHANGED <<quotaExceeded, namespaces>>

\* binding.setRaw(rawValue)
SetRaw(b, rawValue) ==
  LET m == setRaw(options[b], subscribers[b], Run(storage, value[b]), rawValue) IN
  /\ live[b]
  /\ value' = [value EXCEPT ![b] = m.value]
  /\ storage' = m.storage
  /\ last' = Last("setRaw", b, "-", 0, rawValue, m)
  /\ UNCHANGED <<live, options, subscribers, calledUnsubs>>
  /\ hooks' = afterCalls(hooks, b, m.calls)
  /\ updates' = logged(updates, m.calls)
  /\ UNCHANGED <<quotaExceeded, namespaces>>

\* a getValue that reads the store again
getValueFresh(b) ==
  loadFromStorage(options[b], Run(storage, options[b].defaultValue)).value

\* binding.getValue()
getValue(b) == value[b]

\* a getRaw that answers from the cache: what this binding would store
getRawCached(b) ==
  Item(envelope(options[b].version, stringify(value[b])))

\* binding.getRaw()
getRaw(b) == getItem(storage, options[b].key)

\* a call of binding.getValue()
GetValue(b) ==
  /\ live[b]
  /\ last' = Last("getValue", b, "-", getValue(b), <<>>, Run(storage, value[b]))
  /\ UNCHANGED <<storage, live, options, value, subscribers, calledUnsubs>>
  /\ UNCHANGED <<quotaExceeded, namespaces, hooks, updates>>

\* a call of binding.getRaw()
GetRaw(b) ==
  /\ live[b]
  /\ last' = Last("getRaw", b, "-", 0, <<>>,
                  [Run(storage, value[b]) EXCEPT !.ret = getRaw(b)])
  /\ UNCHANGED <<storage, live, options, value, subscribers, calledUnsubs>>
  /\ UNCHANGED <<quotaExceeded, namespaces, hooks, updates>>

\* a subscribe that replays the current value to the new callback
replayedCurrent(b, cb) ==
  <<[cb |-> cb, arg |-> value[b], seen |-> value[b]]>>

\* the callbacks subscribe(cb) invokes before it returns: none
replayed(b, cb) == <<>>

\* binding.subscribe(cb); a binding holds at most MaxSubscribers callbacks
Subscribe(b, cb) ==
  /\ live[b]
  /\ cb \in Range(subscribers[b]) \/ Len(subscribers[b]) < MaxSubscribers
  /\ subscribers' = [subscribers EXCEPT ![b] = add(@, cb)]
  /\ last' = Last("subscribe", b, cb, 0, <<>>,
                  [Run(storage, value[b]) EXCEPT !.calls = replayed(b, cb)])
  /\ UNCHANGED <<storage, live, options, value, calledUnsubs>>
  /\ UNCHANGED <<quotaExceeded, namespaces, hooks, updates>>

\* a closure that drops the most recent registration
unsubscribeLatest(subs, cb) == SubSeq(subs, 1, Len(subs) - 1)

\* the body of the closure subscribe returns
unsubscribe(subs, cb) == delete(subs, cb)

\* first call of the closure returned by the latest subscribe(cb); the
\* caller keeps the closure it called last
Unsubscribe(b, cb) ==
  /\ live[b]
  /\ cb \in Range(subscribers[b])
  /\ subscribers' = [subscribers EXCEPT ![b] = unsubscribe(@, cb)]
  /\ calledUnsubs' = [calledUnsubs EXCEPT ![b] = {cb}]
  /\ last' = Last("unsubscribe", b, cb, 0, <<>>, Run(storage, value[b]))
  /\ UNCHANGED <<storage, live, options, value>>
  /\ UNCHANGED <<quotaExceeded, namespaces, hooks, updates>>

\* a second or later call of an unsubscribe closure of cb
UnsubscribeAgain(b, cb) ==
  /\ live[b]
  /\ cb \in calledUnsubs[b]
  /\ subscribers' = [subscribers EXCEPT ![b] = unsubscribe(@, cb)]
  /\ last' = Last("unsubscribeAgain", b, cb, 0, <<>>, Run(storage, value[b]))
  /\ UNCHANGED <<storage, live, options, value, calledUnsubs>>
  /\ UNCHANGED <<quotaExceeded, namespaces, hooks, updates>>

\* another writer of the backend: storage.setItem(key, raw)
ExternalWrite(key, raw) ==
  /\ storage' = setItem(storage, key, raw)
  /\ last' = Last("setItem", "A", "-", 0, raw, Run(storage, 0))
  /\ UNCHANGED <<live, options, value, subscribers, calledUnsubs>>
  /\ UNCHANGED <<quotaExceeded, namespaces, hooks, updates>>

\* the backend runs out of quota, or gets some back
ExceedQuota ==
  /\ ~quotaExceeded
  /\ quotaExceeded' = TRUE
  /\ last' = Last("exceedQuota", "A", "-", 0, <<>>, Run(storage, 0))
  /\ UNCHANGED <<storage, live, options, value, subscribers, calledUnsubs,
                 namespaces, hooks, updates>>

FreeQuota ==
  /\ quotaExceeded
  /\ quotaExceeded' = FALSE
  /\ last' = Last("freeQuota", "A", "-", 0, <<>>, Run(storage, 0))
  /\ UNCHANGED <<storage, live, options, value, subscribers, calledUnsubs,
                 namespaces, hooks, updates>>

\* new BindValueNS(options) / bindValueNS(options)
BindValueNS(n, opts) ==
  /\ IF empty(opts.prefix)
     THEN /\ last' = Last("bindValueNS", "A", "-", 0, opts.prefix,
                          [Run(storage, 0) EXCEPT
                             !.threw = TRUE, !.ret = "Prefix cannot be empty"])
          /\ UNCHANGED namespaces
     ELSE /\ last' = Last("bindValueNS", "A", "-", 0, opts.prefix,
                          Run(storage, 0))
          /\ namespaces' = [namespaces EXCEPT
                              ![n] = [live |-> TRUE, options |-> opts]]
  /\ UNCHANGED <<storage, live, options, value, subscribers, calledUnsubs,
                 quotaExceeded, hooks, updates>>

\* the options bind(key) gives to new BindValue
bound(nsopts, key) ==
  [key |-> boundKey(nsopts.prefix, key), defaultValue |-> nsopts.defaultValue,
   codec |-> nsopts.codec, version |-> nsopts.version,
   migrate |-> nsopts.migrate]

\* b = namespace.bind(key): throws, or runs the constructor of BindValue
\* (last.raw keeps the key given)
Bind(n, b, key) ==
  /\ namespaces[n].live
  /\ IF empty(key)
     THEN /\ last' = Last("bind", b, "-", 0, key,
                          [Run(storage, 0) EXCEPT
                             !.threw = TRUE, !.ret = "Key cannot be empty"])
          /\ UNCHANGED <<storage, live, options, value, subscribers,
                         calledUnsubs>>
     ELSE LET opts == bound(namespaces[n].options, key)
              m == loadFromStorage(opts, Run(storage, opts.defaultValue)) IN
          /\ live' = [live EXCEPT ![b] = TRUE]
          /\ options' = [options EXCEPT ![b] = opts]
          /\ value' = [value EXCEPT ![b] = m.value]
          /\ storage' = m.storage
          /\ subscribers' = [subscribers EXCEPT ![b] = <<>>]
          /\ calledUnsubs' = [calledUnsubs EXCEPT ![b] = {}]
          /\ last' = Last("bind", b, "-", 0, key, m)
  /\ UNCHANGED <<quotaExceeded, namespaces, hooks, updates>>

\* the first render of the component that calls hook h:
\* useState(binding.getValue())
Render(h) ==
  /\ live[HookBinding(h)]
  /\ hooks[h].phase = "unmounted"
  /\ hooks' = [hooks EXCEPT ![h] = [phase |-> "rendered",
                                     value |-> getValue(HookBinding(h))]]
  /\ last' = Last("render", HookBinding(h), "-", 0, <<>>,
                  Run(storage, value[HookBinding(h)]))
  /\ UNCHANGED <<storage, live, options, value, subscribers, calledUnsubs,
                 quotaExceeded, namespaces, updates>>

\* the effect of hook h, run after the render is committed:
\* binding.subscribe(setValue)
Effect(h) ==
  /\ hooks[h].phase = "rendered"
  /\ Len(subscribers[HookBinding(h)]) < MaxSubscribers
  /\ hooks' = [hooks EXCEPT ![h].phase = "mounted"]
  /\ subscribers' = [subscribers EXCEPT ![HookBinding(h)] = add(@, "setValue")]
  /\ last' = Last("effect", HookBinding(h), "setValue", 0, <<>>,
                  [Run(storage, value[HookBinding(h)]) EXCEPT
                     !.calls = replayed(HookBinding(h), "setValue")])
  /\ UNCHANGED <<storage, live, options, value, calledUnsubs,
                 quotaExceeded, namespaces, updates>>

\* the component of hook h unmounts: the cleanup of the effect, if the
\* effect has run, calls the unsubscribe closure
Unmount(h) ==
  /\ hooks[h].phase # "unmounted"
  /\ hooks' = [hooks EXCEPT ![h] = NoHook]
  /\ subscribers' = [subscribers EXCEPT ![HookBinding(h)] =
                       IF hooks[h].phase = "mounted"
                       THEN unsubscribe(@, "setValue") ELSE @]
  /\ last' = Last("unmount", HookBinding(h), "setValue", 0, <<>>,
                  Run(storage, value[HookBinding(h)]))
  /\ UNCHANGED <<storage, live, options, value, calledUnsubs,
                 quotaExceeded, namespaces, updates>>

\* storage.clear() / _clearInMemoryStorage()
Clear ==
  /\ storage' = [k \in DOMAIN storage |-> Null]
  /\ last' = Last("clear", "A", "-", 0, <<>>, Run(storage, 0))
  /\ UNCHANGED <<live, options, value, subscribers, calledUnsubs>>
  /\ UNCHANGED <<quotaExceeded, namespaces, hooks, updates>>

(***************************************************************************)
(* Spec: the read / write / subscribe protocol of one binding. Bindings    *)
(* are built without migrate; the raw strings given to setRaw are the ones *)
(* getRaw() of such a binding can return.                                  *)
(***************************************************************************)
ProtocolOptions ==
  [key : Keys, defaultValue : Defaults, codec : {"json", "failing"},
   version : {NoVersion, Version(<<1>>)}, migrate : {"none"}]

CopiedRaws ==
  {envelope(o.version, stringify(v)) : o \in ProtocolOptions, v \in Values}

Next ==
  \/ \E b \in Bindings, opts \in ProtocolOptions : Construct(b, opts)
  \/ \E b \in Bindings, v \in Values : Set(b, v)
  \/ \E b \in Bindings, raw \in CopiedRaws : SetRaw(b, raw)
  \/ \E b \in Bindings, cb \in Callbacks : Subscribe(b, cb)
  \/ \E b \in Bindings, cb \in Callbacks : Unsubscribe(b, cb)
  \/ \E b \in Bindings, cb \in Callbacks : UnsubscribeAgain(b, cb)
  \/ Clear

Spec == Init /\ [][Next]_vars

(***************************************************************************)
(* SpecLoad: construction against every content of the backend. Another    *)
(* writer may leave any raw string at the key; bindings take every         *)
(* configuration and have no subscriber.                                   *)
(***************************************************************************)
NextLoad ==
  \/ \E b \in Bindings, opts \in Options : Construct(b, opts)
  \/ \E b \in Bindings, v \in Values : Set(b, v)
  \/ \E key \in Keys, raw \in RawStrings : ExternalWrite(key, raw)
  \/ Clear

SpecLoad == Init /\ [][NextLoad]_vars

(***************************************************************************)
(* SpecReload: write, then build a binding again over what was written.    *)
(* Bindings of strings hold every string of Texts, NUL bytes included;     *)
(* the version is undefined, empty, an ordinary string or a string with a  *)
(* NUL in it. There is no migrate and no subscriber.                       *)
(***************************************************************************)
\* the values of the type T of a codec
ValuesOf(codec) == IF codec \in TextCodecs THEN Texts ELSE Values

\* the default values of that type bindings are built with
DefaultsOf(codec) == IF codec \in TextCodecs THEN {<<>>, <<1>>} ELSE Defaults

ReloadVersions ==
  {NoVersion, Version(<<>>), Version(<<1>>), Version(<<1, NUL>>)}

ReloadOptions ==
  UNION {[key : Keys, defaultValue : DefaultsOf(codec), codec : {codec},
          version : ReloadVersions, migrate : {"none"}]
           : codec \in {"string", "failing"}}

NextReload ==
  \/ \E b \in Bindings, opts \in ReloadOptions : Construct(b, opts)
  \/ \E b \in Bindings : \E v \in ValuesOf(options[b].codec) : Set(b, v)
  \/ Clear

SpecReload == Init /\ [][NextReload]_vars

(***************************************************************************)
(* SpecIntrospect: reading a binding while another writer of the backend   *)
(* puts raw strings of either format at its key.                           *)
(***************************************************************************)
NextIntrospect ==
  \/ \E b \in Bindings, opts \in ProtocolOptions : Construct(b, opts)
  \/ \E b \in Bindings, v \in Values : Set(b, v)
  \/ \E b \in Bindings : Subscribe(b, "recorder")
  \/ \E key \in Keys, raw \in CopiedRaws : ExternalWrite(key, raw)
  \/ \E b \in Bindings : GetValue(b)
  \/ \E b \in Bindings : GetRaw(b)
  \/ Clear

SpecIntrospect == Init /\ [][NextIntrospect]_vars

(***************************************************************************)
(* SpecRaw: setRaw against raw strings of every shape. A raw string is a   *)
(* payload alone or behind an envelope prefix: a lone NUL, the envelope of *)
(* the empty version, an envelope cut short, the envelope of version       *)
(* <<1>> and the envelope of another version. One callback records the     *)
(* notifications.                                                          *)
(***************************************************************************)
RawPrefixes ==
  {<<>>, <<NUL>>, <<NUL, NUL>>, <<NUL, 1>>, <<NUL, 1, NUL>>, <<NUL, 2, NUL>>}

Payloads == UNION {StringsOfLen(n) : n \in 0..MaxPayloadLen}

RawInputs == {pre \o p : pre \in RawPrefixes, p \in Payloads}

RawOptions ==
  [key : Keys, defaultValue : {0}, codec : Codecs, version : Versions,
   migrate : {"none"}]

NextRaw ==
  \/ \E b \in Bindings, opts \in RawOptions : Construct(b, opts)
  \/ \E b \in Bindings, v \in Values : Set(b, v)
  \/ \E b \in Bindings, raw \in RawInputs : SetRaw(b, raw)
  \/ \E b \in Bindings : Subscribe(b, "recorder")
  \/ Clear

SpecRaw == Init /\ [][NextRaw]_vars

(***************************************************************************)
(* SpecPair: two binding objects over one backend. "A" is on key "k1" with *)
(* or without version and migrate; "B" is the other binding, on the key of *)
(* "A" or on another key. Each has its own callback.                       *)
(***************************************************************************)
PairOptions(b) ==
  IF b = "A"
  THEN [key : {"k1"}, defaultValue : {0}, codec : {"json"},
        version : {NoVersion, Version(<<1>>)}, migrate : Migrates]
  ELSE [key : AllKeys, defaultValue : {0}, codec : {"json"},
        version : {Version(<<1>>)}, migrate : {"none"}]

PairCallback(b) == IF b = "A" THEN "recorder" ELSE "observer"

NextPair ==
  \/ \E b \in AllBindings : \E opts \in PairOptions(b) : Construct(b, opts)
  \/ \E b \in AllBindings, v \in Values : Set(b, v)
  \/ \E raw \in CopiedRaws : SetRaw("A", raw)
  \/ \E b \in AllBindings : Subscribe(b, PairCallback(b))
  \/ GetRaw("A")

SpecPair == Init /\ [][NextPair]_vars

(***************************************************************************)
(* SpecNS: one namespace and the binding it gives out. The backend holds   *)
(* the keys of namespaces and one entry at a time, written through the     *)
(* binding; once the namespace is built, only rejected constructions       *)
(* follow.                                                                 *)
(***************************************************************************)
InitNS ==
  /\ quotaExceeded = FALSE
  /\ namespaces = [n \in Namespaces |-> NoNamespace]
  /\ hooks = [h \in Hooks |-> NoHook]
  /\ updates = <<>>
  /\ storage = [k \in NSKeys |-> Null]
  /\ live = [b \in AllBindings |-> FALSE]
  /\ options = [b \in AllBindings |-> NoOptions]
  /\ value = [b \in AllBindings |-> 0]
  /\ subscribers = [b \in AllBindings |-> <<>>]
  /\ calledUnsubs = [b \in AllBindings |-> {}]
  /\ last = Last("init", "A", "-", 0, <<>>, Run(storage, 0))

\* the backend holds no entry, or only the entry of binding b
onlyEntryOf(b) ==
  \A k \in DOMAIN storage : storage[k].present => k = options[b].key

NextNS ==
  \/ \E opts \in NSOptions :
       /\ ~namespaces["N1"].live \/ empty(opts.prefix)
       /\ BindValueNS("N1", opts)
  \/ \E key \in Names : Bind("N1", "A", key)
  \/ \E v \in Values : onlyEntryOf("A") /\ Set("A", v)
  \/ Clear

SpecNS == InitNS /\ [][NextNS]_vars

(***************************************************************************)
(* SpecNSPair: two namespaces over one backend; "N1" gives out binding "A" *)
(* and "N2" binding "B". Prefixes and keys are plain or hold the           *)
(* separator; each namespace is built once and binds once.                 *)
(***************************************************************************)
PairNames == {<<97>>, <<97, US>>, <<US, 97>>}

NSPairOptions ==
  {o \in NSOptions : o.prefix \in PairNames /\ o.version = NoVersion}

NSBinding(n) == IF n = "N1" THEN "A" ELSE "B"

NextNSPair ==
  \/ \E n \in Namespaces, opts \in NSPairOptions :
       /\ ~namespaces[n].live
       /\ BindValueNS(n, opts)
  \/ \E n \in Namespaces, key \in PairNames :
       /\ ~live[NSBinding(n)]
       /\ Bind(n, NSBinding(n), key)
  \/ \E b \in AllBindings : Set(b, 1)

SpecNSPair == InitNS /\ [][NextNSPair]_vars

(***************************************************************************)
(* SpecHook: a component that calls useStorage(binding), next to another   *)
(* subscriber of the binding. The binding outlives the component; React    *)
(* runs the effect some time after the render, and other code may run in   *)
(* between.                                                                *)
(***************************************************************************)
NextHook ==
  \/ \E opts \in ProtocolOptions :
       /\ \A h \in Hooks : hooks[h].phase = "unmounted"
       /\ Construct("A", opts)
  \/ \E h \in Hooks : Render(h)
  \/ \E h \in Hooks : Effect(h)
  \/ \E h \in Hooks : Unmount(h)
  \/ \E v \in Values : Set("A", v)
  \/ \E raw \in CopiedRaws : SetRaw("A", raw)
  \/ Subscribe("A", "recorder")

SpecHook == Init /\ [][NextHook]_vars

(***************************************************************************)
(* SpecReset: set and reset of one binding whose subscribers record what   *)
(* they are given.                                                         *)
(***************************************************************************)
NextReset ==
  \/ \E opts \in ProtocolOptions : Construct("A", opts)
  \/ \E v \in Values : Set("A", v)
  \/ Reset("A")
  \/ \E cb \in {"recorder", "observer"} : Subscribe("A", cb)

SpecReset == Init /\ [][NextReset]_vars

(***************************************************************************)
(* SpecRepeat: consecutive sets of one binding, up to MaxUpdates logged    *)
(* deliveries. The callback "logger" pushes what it is given to a list;    *)
(* the other subscriber throws.                                            *)
(***************************************************************************)
RepeatOptions ==
  [key : Keys, defaultValue : {0}, codec : {"json"},
   version : {NoVersion, Version(<<1>>)}, migrate : {"none"}]

NextRepeat ==
  \/ \E opts \in RepeatOptions : updates = <<>> /\ Construct("A", opts)
  \/ \E v \in Values : Len(updates) < MaxUpdates /\ Set("A", v)
  \/ \E cb \in {"logger", "thrower"} : Subscribe("A", cb)
  \/ \E cb \in {"logger", "thrower"} : Unsubscribe("A", cb)

SpecRepeat == Init /\ [][NextRepeat]_vars

(***************************************************************************)
(* SpecMigrate: every operation of a binding that may have a migrate       *)
(* function, over a backend another writer fills with entries without      *)
(* version, of the version of the binding and of another version, whose    *)
(* payload is the text of a value or empty.                                *)
(***************************************************************************)
StaleRaws ==
  {envelope(ver, payload) :
     ver \in {NoVersion, Version(<<1>>), Version(<<2>>)},
     payload \in {stringify(v) : v \in Values} \cup {<<>>}}

MigrateOptions ==
  [key : Keys, defaultValue : {0}, codec : {"json", "failing"},
   version : {NoVersion, Version(<<1>>)}, migrate : Migrates]

NextMigrate ==
  \/ \E opts \in MigrateOptions : Construct("A", opts)
  \/ \E v \in Values : Set("A", v)
  \/ \E raw \in CopiedRaws : SetRaw("A", raw)
  \/ GetValue("A")
  \/ GetRaw("A")
  \/ Subscribe("A", "recorder")
  \/ Unsubscribe("A", "recorder")
  \/ \E raw \in StaleRaws : ExternalWrite("k1", raw)

SpecMigrate == Init /\ [][NextMigrate]_vars

(***************************************************************************)
(* SpecBackend: a binding over a backend that may refuse writes.           *)
(***************************************************************************)
NextBackend ==
  \/ \E b \in Bindings, opts \in ProtocolOptions : Construct(b, opts)
  \/ \E b \in Bindings, v \in Values : Set(b, v)
  \/ \E b \in Bindings, raw \in CopiedRaws : SetRaw(b, raw)
  \/ \E b \in Bindings : Subscribe(b, "recorder")
  \/ ExceedQuota
  \/ FreeQuota

SpecBackend == Init /\ [][NextBackend]_vars

(***************************************************************************)
(* Properties of set and of the subscription protocol (checked under Spec) *)
(***************************************************************************)
\* what the last call was about
lastOpts == options[last.b]
lastSubs == subscribers[last.b]
lastKey == options[last.b].key

\* the callbacks invoked by the last call, in order
invoked(l) == [i \in 1..Len(l.calls) |-> l.calls[i].cb]

\* no subscriber threw or wrote to the binding during the notification
quiet(l) == ~l.threw /\ ~l.nested

\* C1 (as stated): after set(v) has returned normally, getValue() returns v.
C1_SetThenGetValue ==
  (last.op = "set" /\ ~last.threw) => getValue(last.b) = last.val

\* C1 (amended): after set(v) has returned normally, getValue() returns v,
\* whether or not serialize(v) throws, provided no subscriber callback wrote
\* to the binding during the notification.
C1_SetThenGetValueUnlessReentered ==
  (last.op = "set" /\ ~last.threw /\ ~last.nested)
    => getValue(last.b) = last.val

C1_Witness ==
  /\ last.op = "set" /\ ~last.threw /\ ~last.nested
  /\ ~serialize(lastOpts.codec, last.val).ok
  /\ Len(last.calls) > 0
  /\ getValue(last.b) = last.val

written(l, opts) ==
  IF l.op = "set" THEN l.val
  ELSE deserialize(opts.codec, serializedPart(opts.version, l.raw).s).v

\* C5: calling the unsubscribe function of cb removes cb and leaves every
\* other registration in place; a set or setRaw invokes registered callbacks
\* only, so it never invokes an unsubscribed cb, and it invokes every
\* registered callback when it returns normally after notifying.
C5_Unsubscribe ==
  [][/\ last'.op = "unsubscribe" =>
          /\ last'.cb \notin Range(subscribers'[last'.b])
          /\ subscribers'[last'.b]
               = SelectSeq(subscribers[last'.b], LAMBDA c : c # last'.cb)
     /\ last'.op \in {"set", "setRaw"} =>
          /\ \A i \in 1..Len(last'.calls) :
               last'.calls[i].cb \in Range(subscribers[last'.b])
          /\ (~last'.threw /\ (last'.op = "set" \/ last'.accepted)) =>
               \A cb \in Range(subscribers[last'.b]) :
                 \E i \in 1..Len(last'.calls) : last'.calls[i].cb = cb
    ]_vars

C5_Witness ==
  /\ last.op \in {"set", "setRaw"}
  /\ ~last.threw
  /\ \E cb \in calledUnsubs[last.b] : cb \notin Range(lastSubs)
  /\ Len(lastSubs) >= 2
  /\ Len(last.calls) >= 2

\* C6: a second or later call of an unsubscribe function leaves the
\* subscriber set unchanged.
C6_UnsubscribeAgainIsNoOp ==
  [][last'.op = "unsubscribeAgain" => subscribers' = subscribers]_vars

\* C7: subscribe(cb) invokes no callback and changes neither the cached
\* value nor the store; the values a callback receives are the ones written
\* by the set or setRaw that invokes it (or by a write made from a callback
\* during that call), never the value held when it subscribed.
C7_SubscribeDoesNotReplay ==
  [][/\ last'.op = "subscribe" =>
          /\ last'.calls = <<>>
          /\ value' = value
          /\ storage' = storage
          /\ last'.cb \in Range(subscribers'[last'.b])
     /\ last'.op \in {"set", "setRaw"} =>
          \A i \in 1..Len(last'.calls) :
            \/ last'.calls[i].arg = written(last', options[last'.b])
            \/ /\ last'.nested
               /\ last'.calls[i].arg = options[last'.b].defaultValue
    ]_vars

C7_Witness ==
  /\ last.op = "subscribe"
  /\ last.calls = <<>>
  /\ last.cb \in Range(lastSubs)
  /\ getValue(last.b) # lastOpts.defaultValue
  /\ storage[lastKey].present

(***************************************************************************)
(* Properties of the construction (checked under SpecLoad)                 *)
(***************************************************************************)
\* the options of the binding a step constructs, and the entry it finds
builtOpts == options'[last'.b]
found == storage[options'[last'.b].key]

\* C8: constructing a binding when the store has no entry at its key yields
\* getValue() = defaultValue, invokes neither deserialize nor migrate and
\* leaves the store without an entry at that key.
C8_DefaultFallback ==
  [][(last'.op = "construct" /\ ~found.present)
       => /\ ~last'.threw
          /\ value'[last'.b] = builtOpts.defaultValue
          /\ last'.nDeser = 0
          /\ last'.nMig = 0
          /\ ~storage'[builtOpts.key].present
    ]_vars

C8_Witness ==
  /\ last.op = "construct"
  /\ last.loadState = "NoStoredValue"
  /\ lastOpts.migrate # "none"
  /\ lastOpts.version.def
  /\ lastOpts.defaultValue # 0
  /\ getValue(last.b) = lastOpts.defaultValue
  /\ ~storage[lastKey].present

\* C9: on construction, when the stored version equals the configured
\* version and deserialize(payload) throws, the constructor does not throw,
\* getValue() = defaultValue and the stored raw string stays in the store
\* unchanged.
C9_DeserializeFailure ==
  [][(/\ last'.op = "construct"
      /\ found.present
      /\ parseRaw(found.s).oldVersion = builtOpts.version
      /\ ~deserialize(builtOpts.codec, parseRaw(found.s).serializedValue).ok)
       => /\ ~last'.threw
          /\ value'[last'.b] = builtOpts.defaultValue
          /\ storage' = storage
    ]_vars

C9_Witness ==
  /\ last.op = "construct"
  /\ last.loadState = "DeserializeFailed"
  /\ Truthy(lastOpts.version)
  /\ lastOpts.migrate # "none"
  /\ storage[lastKey].present
  /\ parseRaw(storage[lastKey].s).oldVersion = lastOpts.version
  /\ getValue(last.b) = lastOpts.defaultValue

\* C10: on construction, when the version parsed from the stored raw value
\* equals the configured version (both absent counts as equal), getValue()
\* is the value deserialize(payload) returns, migrate is not invoked even if
\* supplied, and the store is not written.
C10_VersionMatch ==
  [][(/\ last'.op = "construct"
      /\ found.present
      /\ parseRaw(found.s).oldVersion = builtOpts.version)
       => LET d == deserialize(builtOpts.codec,
                               parseRaw(found.s).serializedValue) IN
          /\ d.ok => value'[last'.b] = d.v
          /\ last'.nDeser = 1
          /\ last'.nMig = 0
          /\ storage' = storage
    ]_vars

C10_Witness ==
  /\ last.op = "construct"
  /\ last.loadState = "VersionMatch"
  /\ lastOpts.migrate # "none"
  /\ Truthy(lastOpts.version)
  /\ getValue(last.b) # lastOpts.defaultValue
  /\ storage[lastKey].present

\* the same case for two absent versions
C10_WitnessUnversioned ==
  /\ last.op = "construct"
  /\ last.loadState = "VersionMatch"
  /\ lastOpts.migrate # "none"
  /\ ~lastOpts.version.def
  /\ getValue(last.b) # lastOpts.defaultValue

(***************************************************************************)
(* Properties of the version mismatch on construction (checked under       *)
(* SpecLoad)                                                               *)
(***************************************************************************)
\* the raw string of the storage wire format: NUL + version + NUL +
\* serialized when a version is defined, serialized alone otherwise
wireFormat(version, serialized) ==
  IF version.def THEN <<NUL>> \o version.s \o <<NUL>> \o serialized
  ELSE serialized

\* the step constructs a binding over an entry of another version
mismatching ==
  /\ last'.op = "construct"
  /\ found.present
  /\ versionMismatch(parseRaw(found.s).oldVersion, builtOpts.version)

\* what migrate returns for the entry the step finds
migrated ==
  migrate(builtOpts.migrate, parseRaw(found.s).serializedValue,
          parseRaw(found.s).oldVersion)

\* C11: on construction with a version mismatch and a migrate function that
\* does not throw, migrate is called exactly once with (payload, stored
\* version or undefined), getValue() is its result and, serialize(result)
\* succeeding, the store entry becomes the envelope of the current version
\* around serialize(result), NUL + version + NUL + serialize(result) for
\* every defined version.
C11_MigrateAndPersist ==
  [][(/\ mismatching
      /\ builtOpts.migrate # "none"
      /\ migrated.ok
      /\ serialize(builtOpts.codec, migrated.v).ok)
       => /\ last'.nMig = 1
          /\ last'.migArgs = << <<parseRaw(found.s).serializedValue,
                                  parseRaw(found.s).oldVersion>> >>
          /\ value'[last'.b] = migrated.v
          /\ storage'[builtOpts.key]
               = Item(wireFormat(builtOpts.version,
                                 serialize(builtOpts.codec, migrated.v).s))
    ]_vars

\* the same property for the bindings whose version is undefined or a
\* non-empty string
C11_MigrateAndPersistNonEmpty ==
  [][(/\ mismatching
      /\ builtOpts.version # Version(<<>>)
      /\ builtOpts.migrate # "none"
      /\ migrated.ok
      /\ serialize(builtOpts.codec, migrated.v).ok)
       => /\ last'.nMig = 1
          /\ last'.migArgs = << <<parseRaw(found.s).serializedValue,
                                  parseRaw(found.s).oldVersion>> >>
          /\ value'[last'.b] = migrated.v
          /\ storage'[builtOpts.key]
               = Item(wireFormat(builtOpts.version,
                                 serialize(builtOpts.codec, migrated.v).s))
    ]_vars

C11_WitnessNonEmpty ==
  /\ last.op = "construct"
  /\ last.loadState = "VersionMismatchWithMigrate"
  /\ Truthy(lastOpts.version)
  /\ last.migArgs # <<>>
  /\ last.migArgs[1][2].def
  /\ getValue(last.b) # lastOpts.defaultValue
  /\ storage[lastKey] = Item(<<NUL>> \o lastOpts.version.s \o <<NUL>>
                               \o stringify(getValue(last.b)))

\* C12: on construction with a version mismatch (stored version absent and
\* configured version defined or the reverse, or two different defined
\* strings) and no migrate function, the constructor does not throw,
\* getValue() = defaultValue and the binding's key is removed from the store.
C12_MismatchWithoutMigrate ==
  [][(mismatching /\ builtOpts.migrate = "none")
       => /\ ~last'.threw
          /\ value'[last'.b] = builtOpts.defaultValue
          /\ ~storage'[builtOpts.key].present
          /\ last'.nDeser = 0
    ]_vars

\* two different defined versions, the entry holding a payload the codec
\* could read
C12_Witness ==
  /\ last.op = "construct"
  /\ last.loadState = "VersionMismatchNoMigrate"
  /\ lastOpts.migrate = "none"
  /\ lastOpts.version.def
  /\ parseRaw(last.raw).oldVersion.def
  /\ parseRaw(last.raw).oldVersion # lastOpts.version
  /\ deserialize(lastOpts.codec, parseRaw(last.raw).serializedValue).ok
  /\ lastOpts.defaultValue # 0
  /\ getValue(last.b) = lastOpts.defaultValue
  /\ ~storage[lastKey].present

\* a stored version against an unversioned binding
C12_WitnessUnversioned ==
  /\ last.op = "construct"
  /\ last.loadState = "VersionMismatchNoMigrate"
  /\ ~lastOpts.version.def
  /\ parseRaw(last.raw).oldVersion.def
  /\ ~storage[lastKey].present

\* C13: on construction with a version mismatch, if migrate throws, the
\* constructor does not throw, getValue() = defaultValue and the binding's
\* key is removed from the store.
C13_MigrateFailure ==
  [][(mismatching /\ builtOpts.migrate # "none" /\ ~migrated.ok)
       => /\ ~last'.threw
          /\ last'.nMig = 1
          /\ value'[last'.b] = builtOpts.defaultValue
          /\ ~storage'[builtOpts.key].present
    ]_vars

C13_Witness ==
  /\ last.op = "construct"
  /\ last.loadState = "MigrateFailed"
  /\ lastOpts.migrate # "none"
  /\ last.nMig = 1
  /\ parseRaw(last.raw).oldVersion # lastOpts.version
  /\ ~parse(parseRaw(last.raw).serializedValue).ok
  /\ lastOpts.defaultValue # 0
  /\ getValue(last.b) = lastOpts.defaultValue
  /\ ~storage[lastKey].present

(***************************************************************************)
(* Properties of the stored format and of the reload (checked under        *)
(* SpecReload)                                                             *)
(***************************************************************************)
\* C14: after set(v) whose serialize(v) succeeds, the store entry at the
\* binding's key is exactly serialize(v) when the binding has no version and
\* exactly NUL + version + NUL + serialize(v) when a version is defined, for
\* every defined version string.
C14_StoredFormat ==
  (last.op = "set" /\ ~last.threw /\ serialize(lastOpts.codec, last.val).ok)
    => storage[lastKey]
         = Item(wireFormat(lastOpts.version,
                           serialize(lastOpts.codec, last.val).s))

\* the same property for the bindings whose version is undefined or a
\* non-empty string
C14_StoredFormatNonEmpty ==
  (/\ last.op = "set" /\ ~last.threw
   /\ serialize(lastOpts.codec, last.val).ok
   /\ lastOpts.version # Version(<<>>))
    => storage[lastKey]
         = Item(wireFormat(lastOpts.version,
                           serialize(lastOpts.codec, last.val).s))

C14_WitnessNonEmpty ==
  /\ last.op = "set"
  /\ lastOpts.version = Version(<<1, NUL>>)
  /\ lastOpts.codec = "string"
  /\ Len(last.val) = MaxTextLen
  /\ storage[lastKey] = Item(<<NUL, 1, NUL, NUL>> \o last.val)

\* a step that builds a binding again, with the configuration it had, right
\* after a set whose serialize succeeded
reloading ==
  /\ last.op = "set" /\ ~last.threw
  /\ serialize(options[last.b].codec, last.val).ok
  /\ last'.op = "construct" /\ last'.b = last.b
  /\ options'[last.b] = options[last.b]

\* s holds a NUL byte
hasNul(s) == indexOfNul(s, 1) # 0

\* C15: for a binding with a defined version, a serialized payload that
\* holds NUL bytes survives write and reload: after set(v), a new binding
\* with the same configuration parses the stored version as the configured
\* version and a payload equal to the whole of serialize(v).
C15_NulPayloadSurvives ==
  [][(/\ reloading
      /\ options[last.b].version.def
      /\ hasNul(serialize(options[last.b].codec, last.val).s))
       => /\ found.present
          /\ parseRaw(found.s).oldVersion = options[last.b].version
          /\ parseRaw(found.s).serializedValue
               = serialize(options[last.b].codec, last.val).s
          /\ last'.loadState = "VersionMatch"
          /\ value'[last.b] = last.val
          /\ storage' = storage
    ]_vars

\* the same property for the versions that are non-empty and hold no NUL
C15_NulPayloadSurvivesPlainVersion ==
  [][(/\ reloading
      /\ Truthy(options[last.b].version)
      /\ ~hasNul(options[last.b].version.s)
      /\ hasNul(serialize(options[last.b].codec, last.val).s))
       => /\ found.present
          /\ parseRaw(found.s).oldVersion = options[last.b].version
          /\ parseRaw(found.s).serializedValue
               = serialize(options[last.b].codec, last.val).s
          /\ last'.loadState = "VersionMatch"
          /\ value'[last.b] = last.val
          /\ storage' = storage
    ]_vars

C15_WitnessPlainVersion ==
  /\ last.op = "construct"
  /\ last.loadState = "VersionMatch"
  /\ lastOpts.version = Version(<<1>>)
  /\ lastOpts.codec = "string"
  /\ Len(getValue(last.b)) = MaxTextLen
  /\ getValue(last.b)[1] # NUL
  /\ hasNul(getValue(last.b))
  /\ getValue(last.b) # lastOpts.defaultValue
  /\ last.raw = <<NUL, 1, NUL>> \o getValue(last.b)
  /\ storage[lastKey] = Item(last.raw)

\* C16: after set(v) whose serialize succeeds, a binding constructed later
\* with the same key, store, codec and version loads getValue() =
\* deserialize(serialize(v)) and does not remove the entry, for every
\* configuration (versioned or unversioned) and every serialized string.
C16_SameKeySameData ==
  [][reloading
       => /\ value'[last.b]
               = deserialize(options[last.b].codec,
                             serialize(options[last.b].codec, last.val).s).v
          /\ storage'[options[last.b].key].present
          /\ storage' = storage
    ]_vars

\* the same property when the version is undefined or a non-empty string
\* without NUL and the serialized string does not read as an envelope
C16_SameKeySameDataPlain ==
  [][(/\ reloading
      /\ options[last.b].version.def
           => (Truthy(options[last.b].version)
                 /\ ~hasNul(options[last.b].version.s))
      /\ ~options[last.b].version.def
           => ~parseRaw(serialize(options[last.b].codec, last.val).s)
                 .oldVersion.def)
       => /\ value'[last.b]
               = deserialize(options[last.b].codec,
                             serialize(options[last.b].codec, last.val).s).v
          /\ storage'[options[last.b].key].present
          /\ storage' = storage
    ]_vars

C16_WitnessPlain ==
  /\ last.op = "construct"
  /\ last.loadState = "VersionMatch"
  /\ ~lastOpts.version.def
  /\ lastOpts.codec = "string"
  /\ hasNul(getValue(last.b))
  /\ getValue(last.b) # lastOpts.defaultValue
  /\ storage[lastKey] = Item(getValue(last.b))

(***************************************************************************)
(* Properties of getRaw (checked under SpecIntrospect)                     *)
(***************************************************************************)
\* C17: getRaw() returns exactly the store's current entry at the binding's
\* key (version envelope included), or null if absent, so it reflects the
\* writes other writers made to that slot after construction; it changes
\* neither the cached value nor the store nor the subscriber set and invokes
\* no subscriber.
C17_GetRaw ==
  [][last'.op = "getRaw"
       => /\ last'.ret = storage[options[last'.b].key]
          /\ ~last'.threw
          /\ last'.calls = <<>>
          /\ value' = value
          /\ storage' = storage
          /\ subscribers' = subscribers
    ]_vars

\* getRaw returns an entry another writer left after the construction: an
\* envelope the binding itself does not write, around a value it does not
\* hold
C17_Witness ==
  /\ last.op = "getRaw"
  /\ last.ret.present
  /\ last.ret = storage[lastKey]
  /\ parseRaw(last.ret.s).oldVersion # lastOpts.version
  /\ parseRaw(last.ret.s).serializedValue # stringify(getValue(last.b))
  /\ Len(lastSubs) > 0

\* getRaw returns null once the entry is gone
C17_WitnessNull ==
  /\ last.op = "getRaw"
  /\ last.ret = Null
  /\ getValue(last.b) # lastOpts.defaultValue

(***************************************************************************)
(* Properties of an accepted setRaw (checked under Spec)                   *)
(***************************************************************************)
\* the setRaw of a step passes the version check, the deserialization and
\* the round-trip comparison
roundTrips(opts, raw) ==
  LET part == serializedPart(opts.version, raw) IN
  /\ part.ok
  /\ deserialize(opts.codec, part.s).ok
  /\ serialize(opts.codec, deserialize(opts.codec, part.s).v).ok
  /\ reconstructedRaw(opts.version,
       serialize(opts.codec, deserialize(opts.codec, part.s).v).s) = raw

wellVersioned(version, raw) ==
  /\ startsWith(raw, NUL)
  /\ Len(split(raw)) >= 3
  /\ split(raw)[2] = version.s

\* the call of a step changed nothing and called nothing
noOp ==
  /\ ~last'.threw
  /\ value' = value
  /\ storage' = storage
  /\ subscribers' = subscribers
  /\ last'.calls = <<>>

\* C19: on a binding with a defined version, setRaw(raw) is a complete
\* no-op (cached value, store and subscriber set unchanged, no notification,
\* deserialize not called) unless raw starts with NUL, splits into at least
\* 3 NUL-delimited parts and part[1] equals the configured version exactly.
C19_VersionCheck ==
  [][(/\ last'.op = "setRaw"
      /\ options[last'.b].version.def
      /\ ~wellVersioned(options[last'.b].version, last'.raw))
       => (noOp /\ last'.nDeser = 0)
    ]_vars

\* the same property for the bindings whose version is a non-empty string
C19_VersionCheckNonEmpty ==
  [][(/\ last'.op = "setRaw"
      /\ Truthy(options[last'.b].version)
      /\ ~wellVersioned(options[last'.b].version, last'.raw))
       => (noOp /\ last'.nDeser = 0)
    ]_vars

\* a payload the codec accepts, under the envelope of another version, is
\* refused by a binding that has a subscriber and an entry in the store
C19_WitnessNonEmpty ==
  /\ last.op = "setRaw"
  /\ Truthy(lastOpts.version)
  /\ startsWith(last.raw, NUL)
  /\ Len(split(last.raw)) >= 3
  /\ split(last.raw)[2] # lastOpts.version.s
  /\ deserialize(lastOpts.codec, join(slice2(split(last.raw)))).ok
  /\ last.nDeser = 0
  /\ ~last.accepted
  /\ Len(lastSubs) > 0
  /\ storage[lastKey].present

\* C20: if deserialize(payload) throws during setRaw(raw), setRaw returns
\* without throwing and with no mutation: the cached value, the store entry
\* and the subscriber set are unchanged and no subscriber is invoked.
C20_DeserializeFailure ==
  [][(/\ last'.op = "setRaw"
      /\ serializedPart(options[last'.b].version, last'.raw).ok
      /\ ~deserialize(options[last'.b].codec,
            serializedPart(options[last'.b].version, last'.raw).s).ok)
       => (noOp /\ last'.nDeser = 1 /\ last'.nSer = 0)
    ]_vars

C20_Witness ==
  /\ last.op = "setRaw"
  /\ Truthy(lastOpts.version)
  /\ wellVersioned(lastOpts.version, last.raw)
  /\ last.nDeser = 1
  /\ ~deserialize(lastOpts.codec, join(slice2(split(last.raw)))).ok
  /\ ~last.accepted
  /\ last.calls = <<>>
  /\ Len(lastSubs) > 0
  /\ storage[lastKey].present
  /\ getValue(last.b) # lastOpts.defaultValue

\* the same case on a binding without version
C20_WitnessUnversioned ==
  /\ last.op = "setRaw"
  /\ ~lastOpts.version.def
  /\ last.nDeser = 1
  /\ ~deserialize(lastOpts.codec, last.raw).ok
  /\ last.calls = <<>>
  /\ Len(lastSubs) > 0
  /\ getValue(last.b) # lastOpts.defaultValue

\* C21: if re-serializing the deserialized payload and re-wrapping it as
\* this binding writes its entries does not reproduce the input raw string
\* exactly, setRaw(raw) aborts with no mutation: the cached value, the store
\* entry and the subscriber set are unchanged and no subscriber is invoked.
C21_RoundTripMismatch ==
  [][(/\ last'.op = "setRaw"
      /\ serializedPart(options[last'.b].version, last'.raw).ok
      /\ deserialize(options[last'.b].codec,
           serializedPart(options[last'.b].version, last'.raw).s).ok
      /\ serialize(options[last'.b].codec,
           written(last', options[last'.b])).ok
      /\ reconstructedRaw(options[last'.b].version,
           serialize(options[last'.b].codec,
                     written(last', options[last'.b])).s) # last'.raw)
       => (noOp /\ ~last'.accepted)
    ]_vars

\* a versioned raw string the lossy codec reads as another value than the
\* one cached, refused by a binding with a subscriber and a stored entry
C21_Witness ==
  /\ last.op = "setRaw"
  /\ Truthy(lastOpts.version)
  /\ wellVersioned(lastOpts.version, last.raw)
  /\ last.nDeser = 1
  /\ last.nSer = 1
  /\ ~last.accepted
  /\ last.calls = <<>>
  /\ written(last, lastOpts) # getValue(last.b)
  /\ Len(lastSubs) > 0
  /\ storage[lastKey].present
  /\ storage[lastKey].s # last.raw

\* C22: setRaw is same-version-only: it never accepts (writes, caches or
\* notifies for) a raw string whose version, as the load rule parses it,
\* differs from the binding's configured version, a binding with no version
\* counting as version absent.
C22_SameVersionOnly ==
  [][(/\ last'.op = "setRaw"
      /\ parseRaw(last'.raw).oldVersion # options[last'.b].version)
       => (noOp /\ ~last'.accepted)
    ]_vars

\* the same property for the bindings whose version is undefined or a
\* non-empty string, with the codecs of the values 0..MaxChar-1
C22_SameVersionOnlyNonEmpty ==
  [][(/\ last'.op = "setRaw"
      /\ options[last'.b].version # Version(<<>>)
      /\ parseRaw(last'.raw).oldVersion # options[last'.b].version)
       => (noOp /\ ~last'.accepted)
    ]_vars

C22_WitnessNonEmpty ==
  /\ last.op = "setRaw"
  /\ ~lastOpts.version.def
  /\ parseRaw(last.raw).oldVersion.def
  /\ deserialize(lastOpts.codec, parseRaw(last.raw).serializedValue).ok
  /\ ~last.accepted
  /\ last.calls = <<>>
  /\ Len(lastSubs) > 0
  /\ storage[lastKey].present

\* C23: no public operation (construction, set, setRaw, getValue, getRaw)
\* propagates an exception thrown by the user-supplied serialize,
\* deserialize or migrate; in particular setRaw aborts with no mutation when
\* serialize throws during its round-trip check. (The one callback of
\* SpecRaw never throws, so an exception that reaches the caller comes from
\* one of these functions.)
C23_NoCodecException ==
  [][/\ last'.op \in {"construct", "set", "setRaw"} => ~last'.threw
     /\ (/\ last'.op = "setRaw"
         /\ serializedPart(options[last'.b].version, last'.raw).ok
         /\ deserialize(options[last'.b].codec,
              serializedPart(options[last'.b].version, last'.raw).s).ok
         /\ ~serialize(options[last'.b].codec,
               written(last', options[last'.b])).ok)
          => noOp
    ]_vars

\* what holds instead: construction and set never let such an exception
\* out, and setRaw lets out the one of serialize only, having changed
\* nothing
C23_OnlySetRawSerialize ==
  [][/\ last'.op \in {"construct", "set"} => ~last'.threw
     /\ last'.op = "setRaw" =>
          /\ last'.threw
               <=> (/\ serializedPart(options[last'.b].version, last'.raw).ok
                    /\ deserialize(options[last'.b].codec,
                         serializedPart(options[last'.b].version,
                                        last'.raw).s).ok
                    /\ ~serialize(options[last'.b].codec,
                          written(last', options[last'.b])).ok)
          /\ last'.threw =>
               /\ value' = value /\ storage' = storage
               /\ last'.calls = <<>>
    ]_vars

others(b) == AllBindings \ {b}

\* C25: two bindings on the same key and store are independent caches: a
\* set(v) or an accepted setRaw of one changes the shared store entry (to
\* the envelope of v, to the raw string) but changes neither getValue() of
\* the other nor its subscriber set and invokes none of its subscribers; a
\* binding constructed afterwards on that key with the same version observes
\* the written value through getValue().
C25_IndependentCaches ==
  [][/\ (/\ last'.op \in {"set", "setRaw"}
         /\ last'.op = "setRaw" => last'.accepted)
          => /\ last'.op = "set" =>
                  storage'[options[last'.b].key]
                    = Item(envelope(options[last'.b].version,
                                    stringify(last'.val)))
             /\ last'.op = "setRaw" =>
                  storage'[options[last'.b].key] = Item(last'.raw)
             /\ \A c \in others(last'.b) :
                  /\ value'[c] = value[c]
                  /\ subscribers'[c] = subscribers[c]
                  /\ \A i \in 1..Len(last'.calls) :
                       last'.calls[i].cb # PairCallback(c)
     /\ (/\ last'.op = "construct"
         /\ last.op \in {"set", "setRaw"}
         /\ last.op = "setRaw" => last.accepted
         /\ builtOpts.key = options[last.b].key
         /\ builtOpts.version = options[last.b].version)
          => value'[last'.b] = written(last, options[last.b])
    ]_vars

\* A has just written a value B does not hold: both are on one key, B has a
\* subscriber, which was not called
C25_Witness ==
  /\ last.op \in {"set", "setRaw"}
  /\ last.b = "A"
  /\ live["A"] /\ live["B"]
  /\ options["A"].key = options["B"].key
  /\ options["A"].version = options["B"].version
  /\ Len(subscribers["A"]) > 0 /\ Len(subscribers["B"]) > 0
  /\ Len(last.calls) > 0
  /\ getValue("A") = written(last, options["A"])
  /\ getValue("B") # getValue("A")
  /\ getValue("B") # options["B"].defaultValue
  /\ storage[options["A"].key]
       = Item(envelope(options["A"].version, stringify(getValue("A"))))

\* B, built after A wrote, holds what A wrote
C25_WitnessLater ==
  /\ last.op = "construct" /\ last.b = "B"
  /\ live["A"]
  /\ options["A"].key = options["B"].key
  /\ getValue("B") = getValue("A")
  /\ getValue("B") # options["B"].defaultValue
  /\ last.loadState = "VersionMatch"

\* C26: every operation of a binding (construction with its purge or
\* migration write, set, setRaw, getRaw, subscribe) writes only the store
\* entry at its own key, which does not change after construction; the
\* entries at all other keys, and the options, caches and subscribers of the
\* other bindings, are left unchanged.
C26_OwnKeyOnly ==
  [][last'.op \in {"construct", "set", "setRaw", "getRaw", "subscribe"}
       => /\ \A k \in AllKeys \ {options'[last'.b].key} :
               storage'[k] = storage[k]
          /\ \A c \in others(last'.b) :
               /\ options'[c] = options[c]
               /\ value'[c] = value[c]
               /\ subscribers'[c] = subscribers[c]
               /\ live'[c] = live[c]
          /\ last'.op # "construct" => options'[last'.b] = options[last'.b]
          /\ last'.op = "getRaw"
               => last'.ret = storage[options[last'.b].key]
    ]_vars

\* A is built over a stale entry and purges or rewrites it while another key
\* holds an entry and B, on that key, holds a value and a subscriber
C26_Witness ==
  /\ last.op = "construct" /\ last.b = "A"
  /\ last.loadState \in {"VersionMismatchNoMigrate", "VersionMismatchWithMigrate"}
  /\ live["B"]
  /\ options["B"].key # options["A"].key
  /\ storage[options["B"].key].present
  /\ getValue("B") # options["B"].defaultValue
  /\ Len(subscribers["B"]) > 0

(***************************************************************************)
(* Repeated subscription (checked under Spec)                              *)
(***************************************************************************)
\* how many times the call recorded in l invoked cb
timesInvoked(l, cb) ==
  Cardinality({i \in 1..Len(l.calls) : l.calls[i].cb = cb})

\* every callback occurs once in subs
registeredOnce(subs) ==
  \A i, j \in 1..Len(subs) : subs[i] = subs[j] => i = j

blank(s) == \A i \in 1..Len(s) : s[i] \in Whitespace

\* C28: bindValueNS throws 'Prefix cannot be empty' for an empty or
\* whitespace-only prefix and bind(key) throws 'Key cannot be empty' for an
\* empty or whitespace-only key, in both cases before any access to the
\* store and without any other effect; otherwise bind(key) returns a binding
\* on the store key prefix + U+001F + key (neither part trimmed) that has
\* the other options of the namespace and has loaded from that key.
C28_NamespaceValidation ==
  [][/\ last'.op = "bindValueNS" =>
          IF blank(last'.raw)
          THEN /\ last'.threw /\ last'.ret = "Prefix cannot be empty"
               /\ last'.loadState = "-"
               /\ UNCHANGED <<storage, namespaces, live, options, value,
                              subscribers>>
          ELSE /\ ~last'.threw
               /\ namespaces'["N1"].live
               /\ namespaces'["N1"].options.prefix = last'.raw
               /\ UNCHANGED <<storage, live, options, value, subscribers>>
     /\ last'.op = "bind" =>
          IF blank(last'.raw)
          THEN /\ last'.threw /\ last'.ret = "Key cannot be empty"
               /\ last'.loadState = "-"
               /\ UNCHANGED <<storage, namespaces, live, options, value,
                              subscribers>>
          ELSE LET ns == namespaces["N1"].options
                   k == ns.prefix \o <<US>> \o last'.raw IN
               /\ ~last'.threw
               /\ live'[last'.b]
               /\ options'[last'.b] =
                    [key |-> k, defaultValue |-> ns.defaultValue,
                     codec |-> ns.codec, version |-> ns.version,
                     migrate |-> ns.migrate]
               /\ storage[k].present => last'.loadState # "-"
               /\ (storage[k] = Item(envelope(ns.version, stringify(1))))
                    => value'[last'.b] = 1
               /\ UNCHANGED namespaces
    ]_vars

\* bind(key) has returned a binding for a padded key under a padded prefix,
\* and the binding has loaded the entry at the joined key
C28_Witness ==
  /\ last.op = "bind" /\ ~last.threw
  /\ last.raw = <<97, SP>>
  /\ namespaces["N1"].options.prefix = <<SP, 97>>
  /\ lastKey = <<SP, 97, US, 97, SP>>
  /\ last.loadState = "VersionMatch"
  /\ getValue(last.b) = 1

\* bind(key) has thrown for a key of blanks while the store holds an entry
C28_WitnessThrown ==
  /\ last.op = "bind" /\ last.threw
  /\ last.raw = <<SP, SP>>
  /\ \E k \in DOMAIN storage : storage[k].present

\* bindValueNS has thrown for a blank prefix
C28_WitnessPrefix ==
  /\ last.op = "bindValueNS" /\ last.threw
  /\ last.raw = <<9>>

(***************************************************************************)
(* Isolation of namespaces (checked under SpecNSPair)                      *)
(***************************************************************************)
\* both namespaces have given out a binding, and their prefixes differ
twoNamespaces ==
  /\ live["A"] /\ live["B"]
  /\ namespaces["N1"].options.prefix # namespaces["N2"].options.prefix

\* C29: namespaces are isolated: for two namespaces with different prefixes
\* and keys that pass validation, the store keys of their bindings differ,
\* and a set through a binding of one namespace leaves the entry of the
\* binding of the other unchanged.
C29_NamespacesIsolated ==
  [][twoNamespaces' =>
       /\ options'["A"].key # options'["B"].key
       /\ last'.op = "set" =>
            \A c \in others(last'.b) :
              storage'[options[c].key] = storage[options[c].key]
    ]_vars

(***************************************************************************)
(* The useStorage hook (checked under SpecHook)                            *)
(***************************************************************************)
\* C30: components stay in sync: for every useStorage hook mounted on a
\* binding whose effect has run, the value of the hook equals
\* binding.getValue() whenever no call of the binding is in progress, also
\* when a set happened between the first render of the hook and its effect.
C30_HookInSync ==
  \A h \in Hooks :
    hooks[h].phase = "mounted" => hooks[h].value = getValue(HookBinding(h))

(***************************************************************************)
(* reset (checked under SpecReset)                                         *)
(***************************************************************************)
\* C31: reset() removes the key of the binding from the store, sets the
\* cached value to defaultValue and notifies every subscriber, once and in
\* registration order, with defaultValue; when the key is absent it leaves
\* the store as it is, and a second reset changes nothing; a set(v) after a
\* reset stores the payload of v, inside the version envelope when the
\* binding is versioned.
C31_Reset ==
  [][/\ last'.op = "reset" =>
          /\ storage'[options[last'.b].key] = Null
          /\ \A k \in DOMAIN storage \ {options[last'.b].key} :
               storage'[k] = storage[k]
          /\ value'[last'.b] = options[last'.b].defaultValue
          /\ invoked(last') = subscribers[last'.b]
          /\ \A i \in 1..Len(last'.calls) :
               /\ last'.calls[i].arg = options[last'.b].defaultValue
               /\ last'.calls[i].seen = options[last'.b].defaultValue
          /\ ~storage[options[last'.b].key].present => storage' = storage
          /\ last.op = "reset" => (storage' = storage /\ value' = value)
          /\ UNCHANGED <<options, subscribers, live>>
     /\ (last.op = "reset" /\ last'.op = "set"
           /\ serialize(options[last'.b].codec, last'.val).ok) =>
          /\ value'[last'.b] = last'.val
          /\ storage'[options[last'.b].key] =
               Item(IF options[last'.b].version = NoVersion
                    THEN stringify(last'.val)
                    ELSE <<NUL>> \o options[last'.b].version.s \o <<NUL>>
                           \o stringify(last'.val))
    ]_vars

\* a versioned binding with two subscribers has been reset from a stored
\* value other than the default
C31_Witness ==
  /\ last.op = "reset"
  /\ lastOpts.version # NoVersion
  /\ Len(lastSubs) = 2
  /\ Len(last.calls) = 2
  /\ lastOpts.defaultValue # 0
  /\ getValue(last.b) = lastOpts.defaultValue
  /\ ~storage[lastKey].present

\* a versioned binding has been set after a reset
C31_WitnessSetAfter ==
  /\ last.op = "set"
  /\ lastOpts.version # NoVersion
  /\ storage[lastKey].present
  /\ startsWith(storage[lastKey].s, NUL)
  /\ getValue(last.b) = last.val
  /\ last.val # lastOpts.defaultValue

C33_MigrateOnlyAtLoad ==
  [][/\ last'.nMig <= 1
     /\ Len(last'.migArgs) = last'.nMig
     /\ last'.op # "construct" => last'.nMig = 0
     /\ last'.op = "construct" =>
          (last'.nMig = 1 <=>
             /\ found.present
             /\ builtOpts.migrate # "none"
             /\ parseRaw(found.s).oldVersion # builtOpts.version)
    ]_vars

\* the constructor has invoked migrate on an entry of another version
C33_Witness ==
  /\ last.op = "construct"
  /\ last.nMig = 1 /\ Len(last.migArgs) = 1
  /\ lastOpts.migrate = "parse"
  /\ lastOpts.version = Version(<<1>>)
  /\ last.migArgs[1][2] = Version(<<2>>)
  /\ last.loadState = "VersionMismatchWithMigrate"

\* a binding with a migrate function has accepted a setRaw without invoking
\* it
C33_WitnessSetRaw ==
  /\ last.op = "setRaw" /\ last.accepted
  /\ lastOpts.migrate = "parse"
  /\ last.nMig = 0
  /\ getValue(last.b) # lastOpts.defaultValue

(***************************************************************************)
(* The load states and the store (checked under SpecMigrate)               *)
(***************************************************************************)
LoadStates ==
  {"NoStoredValue", "VersionMatch", "VersionMismatchWithMigrate",
   "VersionMismatchNoMigrate", "MigrateFailed", "DeserializeFailed"}

\* the store with the entry of the binding just built removed
purged == [storage EXCEPT ![builtOpts.key] = Null]

\* the store with the entry of the binding just built replaced by the
\* envelope of the migrated value
rewritten ==
  [storage EXCEPT ![builtOpts.key] =
     Item(envelope(builtOpts.version, stringify(migrated.v)))]

\* C34: construction ends in exactly one of the six load states, the one the
\* entry found and the options decide, and modifies the store only in
\* VersionMismatchWithMigrate (the entry becomes the envelope of the migrated
\* value), VersionMismatchNoMigrate and MigrateFailed (the entry is
\* removed); in NoStoredValue, VersionMatch and DeserializeFailed the store
\* is left unchanged.
C34_LoadStates ==
  [][last'.op = "construct" =>
       LET st == last'.loadState
           p == parseRaw(found.s)
           differ == p.oldVersion # builtOpts.version IN
       /\ st \in LoadStates
       /\ st = "NoStoredValue" <=> ~found.present
       /\ st = "VersionMismatchNoMigrate"
            <=> (found.present /\ differ /\ builtOpts.migrate = "none")
       /\ st = "VersionMismatchWithMigrate"
            <=> (found.present /\ differ /\ builtOpts.migrate # "none"
                   /\ migrated.ok)
       /\ st = "MigrateFailed"
            <=> (found.present /\ differ /\ builtOpts.migrate # "none"
                   /\ ~migrated.ok)
       /\ st = "VersionMatch"
            <=> (found.present /\ ~differ
                   /\ deserialize(builtOpts.codec, p.serializedValue).ok)
       /\ st = "DeserializeFailed"
            <=> (found.present /\ ~differ
                   /\ ~deserialize(builtOpts.codec, p.serializedValue).ok)
       /\ st \in {"NoStoredValue", "VersionMatch", "DeserializeFailed"}
            => storage' = storage
       /\ st \in {"VersionMismatchNoMigrate", "MigrateFailed"}
            => storage' = purged /\ storage' # storage
       /\ st = "VersionMismatchWithMigrate"
            => /\ storage' \in {storage, rewritten}
               /\ serialize(builtOpts.codec, migrated.v).ok
                    => storage' = rewritten /\ storage' # storage
       /\ storage' # storage
            => st \in {"VersionMismatchWithMigrate",
                       "VersionMismatchNoMigrate", "MigrateFailed"}
    ]_vars

\* an entry that cannot be deserialized has been found under the configured
\* version and left in the store
C34_Witness ==
  /\ last.op = "construct"
  /\ last.loadState = "DeserializeFailed"
  /\ storage[lastKey] = Item(last.raw)
  /\ getValue(last.b) = lastOpts.defaultValue

\* an entry has been purged because migrate threw
C34_WitnessPurged ==
  /\ last.op = "construct"
  /\ last.loadState = "MigrateFailed"
  /\ storage[lastKey] = Null

(***************************************************************************)
(* What changes the cached value (checked under SpecMigrate)               *)
(***************************************************************************)
\* C35: getValue returns the cached value without reading the store, so a
\* write of another writer does not change it; getValue, getRaw, subscribe,
\* unsubscribe and a setRaw that is not accepted leave the cached value and
\* the store unchanged; the cached value of a constructed binding changes
\* only through set and an accepted setRaw.
C35_CacheFrame ==
  [][/\ last'.op = "getValue" => last'.val = value[last'.b]
     /\ last'.op = "setItem" => value' = value
     /\ (\/ last'.op \in {"getValue", "getRaw", "subscribe", "unsubscribe"}
         \/ last'.op = "setRaw" /\ ~last'.accepted)
          => value' = value /\ storage' = storage
     /\ (last'.op # "construct" /\ value' # value)
          => \/ last'.op = "set"
             \/ last'.op = "setRaw" /\ last'.accepted
    ]_vars

\* getValue has returned the cached value while the store holds the entry
\* of another writer, which a new binding would load as another value
C35_Witness ==
  /\ last.op = "getValue"
  /\ last.val = getValue(last.b)
  /\ storage[lastKey].present
  /\ LET p == parseRaw(storage[lastKey].s) IN
       /\ p.oldVersion = lastOpts.version
       /\ deserialize(lastOpts.codec, p.serializedValue).ok
       /\ deserialize(lastOpts.codec, p.serializedValue).v # last.val

\* a setRaw of a raw string of another version has been rejected
C35_WitnessRejected ==
  /\ last.op = "setRaw" /\ ~last.accepted /\ ~last.threw
  /\ storage[lastKey].present
  /\ storage[lastKey].s # last.raw

(***************************************************************************)
(* Raw strings without a version (checked under SpecLoad)                  *)
(***************************************************************************)
\* the number of NUL characters of s
countNul(s) == Cardinality({i \in 1..Len(s) : s[i] = NUL})

\* raw does not begin with NUL, or splits at its NULs into fewer than three
\* parts
legacy(raw) == ~startsWith(raw, NUL) \/ countNul(raw) + 1 < 3

\* C36: on load, a raw string that begins with NUL but splits into fewer
\* than three NUL-delimited parts, and a raw string that does not begin with
\* NUL, are unversioned payloads made of the whole raw string: an
\* unversioned binding deserializes the whole string and keeps the entry, a
\* versioned binding finds a version mismatch and gives migrate the whole
\* string and undefined.
C36_LegacyPayload ==
  (/\ last.op = "construct"
   /\ last.loadState # "NoStoredValue"
   /\ legacy(last.raw))
    => IF lastOpts.version = NoVersion
       THEN LET d == deserialize(lastOpts.codec, last.raw) IN
            /\ last.nMig = 0 /\ last.nDeser = 1
            /\ last.loadState = IF d.ok THEN "VersionMatch"
                                ELSE "DeserializeFailed"
            /\ getValue(last.b) = IF d.ok THEN d.v ELSE lastOpts.defaultValue
            /\ storage[lastKey] = Item(last.raw)
       ELSE /\ last.loadState \in {"VersionMismatchWithMigrate",
                                   "VersionMismatchNoMigrate", "MigrateFailed"}
            /\ last.nDeser = 0
            /\ lastOpts.migrate # "none"
                 => last.migArgs = << <<last.raw, NoVersion>> >>
            /\ lastOpts.migrate = "none"
                 => /\ storage[lastKey] = Null
                    /\ getValue(last.b) = lastOpts.defaultValue

\* a versioned binding has given migrate an entry of two NUL-delimited
\* parts, whole and without a version
C36_Witness ==
  /\ last.op = "construct"
  /\ startsWith(last.raw, NUL) /\ countNul(last.raw) = 1 /\ Len(last.raw) = 3
  /\ lastOpts.version = Version(<<1>>)
  /\ last.migArgs = << <<last.raw, NoVersion>> >>

\* an unversioned binding has read an entry with two NULs that does not
\* begin with NUL
C36_WitnessInner ==
  /\ last.op = "construct"
  /\ ~startsWith(last.raw, NUL) /\ countNul(last.raw) = 2
  /\ lastOpts.version = NoVersion
  /\ last.loadState \in {"VersionMatch", "DeserializeFailed"}
  /\ storage[lastKey] = Item(last.raw)

(***************************************************************************)
(* A subscriber that calls set (checked under Spec)                        *)
(***************************************************************************)
\* the place of cb among subs, 0 when it is not there
indexOf(subs, cb) ==
  IF cb \in Range(subs) THEN CHOOSE i \in 1..Len(subs) : subs[i] = cb ELSE 0

\* C37: if a subscriber calls set(y) from inside its callback while set(x)
\* is notifying, then when the outer set returns getValue() is y, the store
\* holds the envelope of y (serialize(y) returning), and every subscriber
\* registered after the re-entering one has been invoked twice, once by the
\* inner and once by the outer round, both times with y and never with x.
C37_ReentrantSet ==
  (last.op = "set" /\ last.nested /\ ~last.threw)
    => LET y == lastOpts.defaultValue
           at == indexOf(lastSubs, "resetter") IN
       /\ at > 0
       /\ last.val # y
       /\ getValue(last.b) = y
       /\ serialize(lastOpts.codec, y).ok
            => storage[lastKey] = Item(envelope(lastOpts.version, stringify(y)))
       /\ \A j \in (at + 1)..Len(lastSubs) :
            /\ timesInvoked(last, lastSubs[j]) = 2
            /\ \A i \in 1..Len(last.calls) :
                 last.calls[i].cb = lastSubs[j]
                   => last.calls[i].arg = y /\ last.calls[i].seen = y

\* set(x) has returned after the first subscriber called set(y): the second
\* subscriber was invoked twice
C37_Witness ==
  /\ last.op = "set" /\ last.nested /\ ~last.threw
  /\ lastSubs = <<"resetter", "recorder">>
  /\ invoked(last) = <<"resetter", "resetter", "recorder", "recorder">>
  /\ last.calls[1].arg = last.val
  /\ last.calls[3].arg = lastOpts.defaultValue
  /\ last.calls[4].arg = lastOpts.defaultValue
  /\ getValue(last.b) = lastOpts.defaultValue
  /\ storage[lastKey].present

(***************************************************************************)
(* A subscriber that throws (checked under Spec)                           *)
(***************************************************************************)
\* C38: if a subscriber callback throws during set(v), the exception
\* propagates out of set; the cached value was v when the notification
\* began and, unless an earlier subscriber has written to the binding
\* since, the cached value is v and the store holds the envelope of v
\* (serialize(v) returning); the subscribers registered after the throwing
\* one are not invoked for that call.
C38_ThrowingSubscriber ==
  (last.op = "set"
     /\ \E i \in 1..Len(last.calls) : last.calls[i].cb = "thrower")
    => LET at == indexOf(lastSubs, "thrower") IN
       /\ last.threw
       /\ last.calls[Len(last.calls)].cb = "thrower"
       /\ timesInvoked(last, "thrower") = 1
       /\ last.calls[1].arg = last.val /\ last.calls[1].seen = last.val
       /\ ~last.nested =>
            /\ getValue(last.b) = last.val
            /\ serialize(lastOpts.codec, last.val).ok
                 => storage[lastKey]
                      = Item(envelope(lastOpts.version, stringify(last.val)))
            /\ invoked(last) = SubSeq(lastSubs, 1, at)
       /\ \A j \in (at + 1)..Len(lastSubs) : timesInvoked(last, lastSubs[j]) = 0

\* set(v) has thrown out of the first of two subscribers, with v cached and
\* stored
C38_Witness ==
  /\ last.op = "set" /\ last.threw /\ ~last.nested
  /\ lastSubs = <<"thrower", "recorder">>
  /\ invoked(last) = <<"thrower">>
  /\ getValue(last.b) = last.val
  /\ last.val # lastOpts.defaultValue
  /\ storage[lastKey] = Item(envelope(lastOpts.version, stringify(last.val)))

(***************************************************************************)
(* A migrated value that cannot be serialized (checked under SpecMigrate)  *)
(***************************************************************************)
\* C39: if migrate succeeds on construction but serialize of the migrated
\* value throws, the constructor does not throw, getValue() is the migrated
\* value and the entry of the old version stays in the store as it was; a
\* construction with the same configuration that follows invokes migrate
\* again, with the same arguments.
C39_UnsavedMigration ==
  [][/\ (/\ last'.op = "construct"
         /\ found.present
         /\ parseRaw(found.s).oldVersion # builtOpts.version
         /\ builtOpts.migrate # "none"
         /\ migrated.ok
         /\ ~serialize(builtOpts.codec, migrated.v).ok)
          => /\ ~last'.threw
             /\ last'.loadState = "VersionMismatchWithMigrate"
             /\ last'.nMig = 1 /\ last'.nSer = 1
             /\ value'[last'.b] = migrated.v
             /\ storage' = storage
     /\ (/\ last.op = "construct" /\ last'.op = "construct"
         /\ last.b = last'.b
         /\ options' = options
         /\ last.loadState = "VersionMismatchWithMigrate"
         /\ ~serialize(lastOpts.codec, value[last.b]).ok)
          => /\ last'.nMig = 1
             /\ last'.migArgs = last.migArgs
             /\ value' = value
             /\ storage' = storage
    ]_vars

\* a binding holds a migrated value it could not serialize, and the store
\* still holds the entry of the old version
C39_Witness ==
  /\ last.op = "construct" /\ ~last.threw
  /\ last.loadState = "VersionMismatchWithMigrate"
  /\ last.nMig = 1
  /\ ~serialize(lastOpts.codec, getValue(last.b)).ok
  /\ storage[lastKey] = Item(last.raw)
  /\ parseRaw(last.raw).oldVersion # lastOpts.version
  /\ getValue(last.b) # lastOpts.defaultValue

(***************************************************************************)
(* setRaw over a backend that refuses writes (checked under SpecBackend)   *)
(***************************************************************************)
\* C40: if setItem of the store throws during a setRaw(raw) that is valid
\* otherwise, the exception propagates to the caller, the cached value and
\* the store are unchanged and no subscriber is invoked: setRaw writes
\* before it updates the cache; set updates the cache before it attempts
\* the write, so after a set(v) whose write is refused the cached value is
\* v.
C40_SetRawWritesFirst ==
  [][/\ (/\ last'.op = "setRaw"
         /\ roundTrips(options[last'.b], last'.raw)
         /\ quotaExceeded)
          => /\ last'.threw /\ ~last'.accepted
             /\ value' = value
             /\ storage' = storage
             /\ last'.calls = <<>>
     /\ (last'.op = "set" /\ quotaExceeded)
          => /\ value'[last'.b] = last'.val
             /\ storage' = storage
             /\ \A i \in 1..Len(last'.calls) : last'.calls[i].seen = last'.val
    ]_vars

\* a valid setRaw of a binding with a subscriber has thrown out of setItem:
\* the cached value is not the one of the raw string
C40_Witness ==
  /\ last.op = "setRaw" /\ last.threw
  /\ quotaExceeded
  /\ roundTrips(lastOpts, last.raw)
  /\ Len(lastSubs) > 0
  /\ last.calls = <<>>
  /\ getValue(last.b)
       # deserialize(lastOpts.codec,
                     serializedPart(lastOpts.version, last.raw).s).v
  /\ storage[lastKey] # Item(last.raw)

====
